---- MODULE Spec2Model ----
(***************************************************************************)
(* Sieve: the engine's run over the configured sources (Engine.Run), the   *)
(* per-item pipeline (Engine.processItem), the rule merging of the config  *)
(* package and the collaborators they call (feed, classifier, storage,     *)
(* plugins, rate limiter, admission semaphore, errgroup).                  *)
(***************************************************************************)
EXTENDS Integers, Sequences, FiniteSets, TLC

(* ------------------------------ bounds --------------------------------- *)
\* Upper bound on the number of feed entries of one run, all sources together.
MaxItems == 2
\* The clock counts limiter intervals up to this value and then saturates.
MaxTicks == 1
\* Upper bound on the SaveItem calls made on a store outside a run.
MaxSaves == 3
\* Upper bound on the sources of a configuration that is validated.
MaxConfigSources == 2
\* Upper bound on the generateID calls made outside a run.
MaxIDs == 2

(* ------------------------- program constants --------------------------- *)
defaultAIRateLimit == 500
defaultAIBurstLimit == 5
defaultAIMaxConcurrency == 5
\* Content shorter than this is replaced by the description for Summarize.
MinContentLen == 100

HighInterest == "high_interest"
Interest == "interest"
Uninterested == "uninterested"
Exclude == "exclude"
InterestLevel == {HighInterest, Interest, Uninterested, Exclude}

(* ------------------------------ helpers -------------------------------- *)
Min(a, b) == IF a < b THEN a ELSE b

\* A text of 100 characters, the shortest content Summarize is given as is.
LongText ==
  "0123456789012345678901234567890123456789012345678901234567890123456789012345678901234567890123456789"

(* --------------------------- config package ---------------------------- *)
mergeStrings_DropGlobal(global, specific) ==
  IF specific # "" THEN specific ELSE global

\* mergeStrings: global, then a comma, then specific, when both are non-empty.
mergeStrings(global, specific) ==
  IF specific # ""
    THEN IF global = "" THEN specific ELSE global \o "," \o specific
    ELSE global

MergeRules(global, specific) == mergeStrings(global, specific)

\* BuildRulesString: fmt.Sprintf of the four merged levels.
BuildRulesString(global, src) ==
  "High: " \o MergeRules(global.HighInterest, src.HighInterest)
    \o ", Interest: " \o MergeRules(global.Interest, src.Interest)
    \o ", Uninterested: " \o MergeRules(global.Uninterested, src.Uninterested)
    \o ", Exclude: " \o MergeRules(global.Exclude, src.Exclude)

(* ------------------------------ rss package ---------------------------- *)
\* generateID hashes source + "|" + link; the hash is taken to be injective,
\* so the identity is the hashed string itself.
generateID(source, link) == source \o "|" \o link

\* FetchItems builds one item per feed entry (the fields the pipeline reads).
NewItem(sourceName, entry) ==
  [ ID            |-> generateID(sourceName, entry.Link),
    Source        |-> sourceName,
    Link          |-> entry.Link,
    Description   |-> entry.Description,
    Content       |-> entry.Content,
    Summary       |-> "",
    Reason        |-> "",
    InterestLevel |-> "" ]

RECURSIVE FeedItems(_, _)
FeedItems(sourceName, entries) ==
  IF entries = <<>> THEN <<>>
  ELSE <<NewItem(sourceName, Head(entries))>> \o FeedItems(sourceName, Tail(entries))

(* ------------------------------ state ---------------------------------- *)
VARIABLES
  cfg,        \* config.Config: Global and Sources
  env,        \* what the collaborators may answer in this run (inputs), and
              \* whether the times of the inference calls are observed
  storage,    \* the items table: a function from the stored IDs to their rows
  storage0,   \* the items table when the run started
  tasks,      \* one errgroup task per source: position and locals
  tokens,     \* tokens left in the rate limiter's bucket
  now,        \* limiter intervals elapsed since the limiter was created
  aiSem,      \* number of elements in the aiSem channel
  result,     \* EngineResult under construction
  mu,         \* the tasks inside a critical section of the RunResult mutex
  ctx,        \* parent context and the errgroup's derived context
  run,        \* Engine.Run itself: waiting for the group, or returned
  hist,       \* observations: SaveItem calls per ID, inference admissions,
              \* whether the context was cancelled before every task returned
              \* and which tasks were blocked at a gate at that moment
  call        \* a call made outside a run (config, storage or inference
              \* client): its arguments, its position and what it returned

vars == <<cfg, env, storage, storage0, tasks, tokens, now, aiSem, result, mu, ctx, run, hist, call>>

Srcs == DOMAIN cfg.Sources

(* ----------------------- Run: gates from the config -------------------- *)
rateLimit ==
  IF cfg.Global.AITimeBetweenRequests > 0
    THEN cfg.Global.AITimeBetweenRequests ELSE defaultAIRateLimit

burstLimit ==
  IF cfg.Global.AIBurstLimit > 0 THEN cfg.Global.AIBurstLimit ELSE defaultAIBurstLimit

maxConcurrency ==
  IF cfg.Global.AIMaxConcurrency > 0
    THEN cfg.Global.AIMaxConcurrency ELSE defaultAIMaxConcurrency

(* ------------------------- collaborators' answers ---------------------- *)
NoItem == [ID |-> ""]
NoError == ""
ErrCanceled == "context canceled"

\* Links of feed entries, one per position up to MaxItems.
LinkOf(n) == CASE n = 1 -> "x" [] n = 2 -> "y" [] OTHER -> "z"
Links == {LinkOf(n) : n \in 1..MaxItems}

\* Feeds of up to n entries.
FeedsOf(entries, n) == UNION {[1..k -> entries] : k \in 0..n}

\* Feeds whose k-th entry has the k-th link.
DistinctFeedsOf(entries, n) ==
  {feed \in FeedsOf(entries, n) : \A k \in DOMAIN feed : feed[k].Link = LinkOf(k)}

\* A row written by an earlier run.
OldRow(id) ==
  [ ID |-> id, Source |-> "", Link |-> "", Description |-> "old", Content |-> "",
    Summary |-> "", Reason |-> "old", InterestLevel |-> Interest ]

(* ---------------- config package: AI settings, Validate --------------- *)
\* A nil *AIConfig; the other pointers are the keys of a heap of AIConfig
\* objects.
Nil == "nil"

ResolveAIConfig_InPlace(heap, global, source) ==
  IF source = Nil THEN [heap |-> heap, ret |-> global]
  ELSE IF global = Nil THEN [heap |-> heap, ret |-> source]
  ELSE [ heap |-> [heap EXCEPT ![global] =
                     [ Provider |-> IF heap[source].Provider # ""
                                      THEN heap[source].Provider ELSE heap[global].Provider,
                       Model    |-> IF heap[source].Model # ""
                                      THEN heap[source].Model ELSE heap[global].Model ]],
         ret  |-> global ]

\* ResolveAIConfig: the heap after the call and the pointer returned; the
\* merged object is a copy of *global at a new address.
ResolveAIConfig(heap, global, source) ==
  IF source = Nil THEN [heap |-> heap, ret |-> global]
  ELSE IF global = Nil THEN [heap |-> heap, ret |-> source]
  ELSE [ heap |-> [a \in DOMAIN heap \cup {"merged"} |->
                     IF a = "merged"
                       THEN [ Provider |-> IF heap[source].Provider # ""
                                             THEN heap[source].Provider
                                             ELSE heap[global].Provider,
                              Model    |-> IF heap[source].Model # ""
                                             THEN heap[source].Model
                                             ELSE heap[global].Model ]
                       ELSE heap[a]],
         ret  |-> "merged" ]

UpperCase == "ABCDEFGHIJKLMNOPQRSTUVWXYZ"
LowerCase == "abcdefghijklmnopqrstuvwxyz"

\* strings.ToLower on ASCII text.
RECURSIVE ToLower(_)
ToLower(str) ==
  IF str = "" THEN ""
  ELSE LET c == SubSeq(str, 1, 1)
           u == {k \in 1..Len(UpperCase) : SubSeq(UpperCase, k, k) = c}
       IN (IF u = {} THEN c ELSE LET k == CHOOSE j \in u : TRUE IN SubSeq(LowerCase, k, k))
            \o ToLower(SubSeq(str, 2, Len(str)))

validProviders == {"gemini", "qwen"}

validProvider_CaseSensitive(provider) == provider \in validProviders

\* validProviders[strings.ToLower(provider)]
validProvider(provider) == ToLower(provider) \in validProviders

\* url.Parse, as far as its rule on a leading colon goes: the error it
\* returns, NoError when it returns none.
urlParseErr(rawURL) ==
  IF rawURL # "" /\ SubSeq(rawURL, 1, 1) = ":"
    THEN "parse \"" \o rawURL \o "\": missing protocol scheme"
    ELSE NoError

\* The checks Validate makes on the source at position k (index k - 1).
ValidateSource(heap, src, k) ==
  LET at == "source[" \o ToString(k - 1) \o "]: " IN
  IF src.Name = "" THEN at \o "name is required"
  ELSE IF src.URL = "" THEN at \o "URL is required"
  ELSE IF urlParseErr(src.URL) # NoError
    THEN at \o "invalid URL \"" \o src.URL \o "\": " \o urlParseErr(src.URL)
  ELSE IF src.AI # Nil /\ heap[src.AI].Provider # "" /\ ~validProvider(heap[src.AI].Provider)
    THEN at \o "invalid AI provider \"" \o heap[src.AI].Provider
            \o "\", must be 'gemini' or 'qwen'"
  ELSE NoError

\* The loop of Validate from position k on.
RECURSIVE ValidateSources(_, _, _)
ValidateSources(heap, sources, k) ==
  IF k > Len(sources) THEN NoError
  ELSE IF ValidateSource(heap, sources[k], k) # NoError
    THEN ValidateSource(heap, sources[k], k)
  ELSE ValidateSources(heap, sources, k + 1)

\* Config.Validate: the error it returns, NoError for nil.
Validate(heap, c) ==
  IF Len(c.Sources) = 0 THEN "at least one source is required"
  ELSE IF c.Global.AI # Nil /\ heap[c.Global.AI].Provider # ""
            /\ ~validProvider(heap[c.Global.AI].Provider)
    THEN "invalid AI provider \"" \o heap[c.Global.AI].Provider
            \o "\", must be 'gemini' or 'qwen'"
  ELSE ValidateSources(heap, c.Sources, 1)

(* ---------------------------- plugin package --------------------------- *)
\* The names registered by the package's init.
registry ==
  {"nop", "fetch_content", "fetch_meta", "cnbeta_fetch_content",
   "hn_fetch_comments", "zaihuapd_clean_description"}

\* Execute of the registered plugin: fetch_content fills an empty Content
\* with the Description, every other registered plugin is the NopPlugin.
Execute(name, item) ==
  IF name = "fetch_content" /\ item.Content = ""
    THEN [item EXCEPT !.Content = item.Description]
    ELSE item

RECURSIVE RunPlugins_StopAtMissing(_, _)
RunPlugins_StopAtMissing(names, item) ==
  IF names = <<>> THEN item
  ELSE IF Head(names) \notin registry THEN item
  ELSE RunPlugins_StopAtMissing(Tail(names), Execute(Head(names), item))

\* The plugin loop of processItem when no plugin fails.
RECURSIVE RunPlugins(_, _)
RunPlugins(names, item) ==
  IF names = <<>> THEN item
  ELSE IF Head(names) \notin registry THEN RunPlugins(Tail(names), item)
  ELSE RunPlugins(Tail(names), Execute(Head(names), item))

Registered(names) == {k \in DOMAIN names : names[k] \in registry}

(* --------------------------- storage package --------------------------- *)
\* Exists: whether a row with this ID is in the items table.
Exists(id) == id \in DOMAIN storage

\* The row with this ID, if any.
Row(id) == IF id \in DOMAIN storage THEN storage[id] ELSE NoItem

SaveItem_Ignore(table, item) ==
  [id \in DOMAIN table \cup {item.ID} |-> IF id \in DOMAIN table THEN table[id] ELSE item]

\* SaveItem: INSERT OR REPLACE keyed by the primary key id.
SaveItem(table, item) ==
  [id \in DOMAIN table \cup {item.ID} |-> IF id = item.ID THEN item ELSE table[id]]

AllItems_Unfiltered(table) == {table[id] : id \in DOMAIN table}

\* AllItems: the rows whose interest_level is not 'exclude'.
AllItems(table) ==
  {table[id] : id \in {j \in DOMAIN table : table[j].InterestLevel # Exclude}}

(* ------------------------------- Init ---------------------------------- *)
NewTask ==
  [ pc      |-> "start",   \* where the task function of this source stands
    items   |-> <<>>,      \* the items FetchItems returned
    i       |-> 0,         \* position in items (Count of the progress events)
    rules   |-> "",        \* BuildRulesString of this source
    item    |-> NoItem,    \* the item processItem works on
    level1  |-> "",
    reason1 |-> "",
    err     |-> NoError,   \* what processItem returned
    seen    |-> NoItem,    \* the row with the item's ID when Exists was called
    plugged |-> 0,         \* plugins executed by this processItem call
    calls   |-> <<>>,      \* inference calls of this processItem call, in order
    saved   |-> NoItem,    \* the item this processItem call passed to SaveItem
    outs    |-> <<>>,      \* per item passed to processItem: did it return nil
    dones   |-> 0,         \* item_done events reported for this source
    lvls    |-> <<>>,      \* per item: the Level of its item_done event, "-" if none
    fetched |-> NoError,   \* the error FetchItems returned
    sect    |-> "",        \* the critical section the task is at, if any
    evs     |-> <<>>,      \* the progress events this task handed to OnProgress
    ret     |-> NoError ]  \* what the task function returned

NoResult == [SourcesProcessed |-> -1]

\* No call outside the run.
NoCall == [op |-> ""]

\* The IDs an earlier run may have stored: the first link of each source.
PossibleIDs(c) ==
  {generateID(c.Sources[k].Name, LinkOf(1)) : k \in DOMAIN c.Sources}

\* The engine before Run has started a task.
EngineInit(configs, envs) ==
  /\ cfg \in configs
  /\ env \in envs
  /\ storage \in {[id \in S |-> OldRow(id)] :
                     S \in {{}} \cup {{id} : id \in PossibleIDs(cfg)}}
  /\ storage0 = storage
  /\ tasks = [s \in DOMAIN cfg.Sources |-> NewTask]
  /\ tokens = burstLimit
  /\ now = 0
  /\ aiSem = 0
  /\ result = [SourcesProcessed |-> 0, SourcesFailed |-> <<>>,
               ItemsProcessed |-> 0, ItemsHighInterest |-> 0]
  /\ mu = {}
  /\ ctx = [parent |-> FALSE, derived |-> FALSE, gerr |-> NoError]
  /\ run = [pc |-> "wait", result |-> NoResult, err |-> NoError,
            events |-> <<>>, report |-> {}]
  /\ hist = [saves |-> [id \in {} |-> 0], lastAdmit |-> -1, close |-> 0,
             midrun |-> FALSE, waiting |-> {}]

InitWith(configs, envs) ==
  /\ EngineInit(configs, envs)
  /\ call = NoCall

\* The variables of a run, which a call outside a run leaves alone.
engine == <<cfg, env, storage, storage0, tasks, tokens, now, aiSem, result, mu, ctx, run, hist>>

(* --------------------------- Run: source tasks ------------------------- *)
Src(s) == cfg.Sources[s]

\* ProgressEvent, without the names of the source and of the item: Count is
\* the position of the item in its feed.
ProgressEvent(type, count, total, level, message) ==
  [Type |-> type, Count |-> count, Total |-> total, Level |-> level, Message |-> message]

\* e.report(ev): the callback is called when one is installed.
Report(t, ev) == IF env.onProgress THEN [t EXCEPT !.evs = Append(@, ev)] ELSE t

FetchFailureMessage_Empty(e) == ""

\* fmt.Sprintf("Error fetching items: %v", err)
FetchFailureMessage(e) == "Error fetching items: " \o e

\* source_start and, after a failed retrieval, source_done with its message.
ReportFetch(t, e) ==
  LET started == Report(t, ProgressEvent("source_start", 0, 0, "", ""))
  IN IF e = NoError THEN started
     ELSE Report(started, ProgressEvent("source_done", 0, 0, "", FetchFailureMessage(e)))

\* The task function returns e; errgroup keeps the first non-nil error and
\* cancels the derived context.
Return(s, t, e) ==
  /\ tasks' = [tasks EXCEPT ![s] = [t EXCEPT !.pc = "done", !.ret = e]]
  /\ ctx' = IF e # NoError /\ ctx.gerr = NoError
              THEN [ctx EXCEPT !.gerr = e, !.derived = TRUE]
              ELSE ctx

RecordFailure_AlsoProcessed(res, src, e) ==
  [res EXCEPT !.SourcesProcessed = @ + 1,
              !.SourcesFailed = Append(@, [Name |-> src.Name, URL |-> src.URL, Error |-> e])]

\* result.SourcesFailed = append(result.SourcesFailed, SourceError{...})
RecordFailure(res, src, e) ==
  [res EXCEPT !.SourcesFailed =
     Append(@, [Name |-> src.Name, URL |-> src.URL, Error |-> e])]

FetchFailureReturn_Propagate(e) == e

\* What the task returns after it recorded a failed feed retrieval.
FetchFailureReturn(e) == NoError

\* The number of items the feeds of this run have returned so far.
RECURSIVE FetchedBy(_)
FetchedBy(S) ==
  IF S = {} THEN 0
  ELSE LET s == CHOOSE x \in S : TRUE IN Len(tasks[s].items) + FetchedBy(S \ {s})

\* source_start, rss.FetchItems and the bookkeeping that follows it.
FetchItems(s) ==
  /\ tasks[s].pc = "start"
  /\ \/ \E e \in (IF ctx.derived THEN {ErrCanceled} ELSE env.fetchErrs) :
          /\ result' = RecordFailure(result, Src(s), e)
          /\ Return(s, ReportFetch([tasks[s] EXCEPT !.fetched = e], e),
                    FetchFailureReturn(e))
     \/ /\ ~ctx.derived
        /\ \E feed \in env.feeds :
             /\ Len(feed) + FetchedBy(Srcs) <= MaxItems
             /\ tasks' = [tasks EXCEPT ![s] =
                         [ReportFetch(@, NoError) EXCEPT
                                   !.pc = "loop", !.i = 1,
                                   !.items = FeedItems(Src(s).Name, feed),
                                   !.rules = BuildRulesString(cfg.Global, Src(s))]]
        /\ result' = [result EXCEPT !.SourcesProcessed = @ + 1]
        /\ UNCHANGED ctx
  /\ UNCHANGED <<mu, call, cfg, env, storage, storage0, tokens, now, aiSem, run, hist>>

ItemAt_Reverse(items, i) == items[Len(items) + 1 - i]

\* for i, item := range items: the item of the iteration at position i.
ItemAt(items, i) == items[i]

\* The head of the item loop: the end of the feed, the cancellation check of
\* the select, or item_start.
LoopHead(s) ==
  LET t == tasks[s] IN
  /\ t.pc = "loop"
  /\ IF t.i > Len(t.items)
       THEN Return(s, Report(t, ProgressEvent("source_done", Len(t.items),
                                              Len(t.items), "", "")), NoError)
     ELSE IF ctx.derived THEN Return(s, t, ErrCanceled)
     ELSE /\ tasks' = [tasks EXCEPT ![s] =
                         [Report(t, ProgressEvent("item_start", t.i, Len(t.items), "", ""))
                            EXCEPT !.pc = "wait", !.item = ItemAt(t.items, t.i)]]
          /\ UNCHANGED ctx
  /\ UNCHANGED <<mu, call, cfg, env, storage, storage0, tokens, now, aiSem, result, run, hist>>

\* limiter.Wait(ctx): an error once the context is done, else one token.
LimiterWait(s) ==
  LET t == tasks[s] IN
  /\ t.pc = "wait"
  /\ IF ctx.derived
       THEN Return(s, t, ErrCanceled) /\ UNCHANGED tokens
       ELSE /\ tokens > 0
            /\ tokens' = tokens - 1
            /\ tasks' = [tasks EXCEPT ![s] = [t EXCEPT !.pc = "sem"]]
            /\ UNCHANGED ctx
  /\ UNCHANGED <<mu, call, cfg, env, storage, storage0, now, aiSem, result, run, hist>>

SemAcquire_NoLimit(s) ==
  /\ tasks[s].pc = "sem"
  /\ aiSem' = aiSem + 1
  /\ tasks' = [tasks EXCEPT ![s] = [@ EXCEPT !.pc = "processItem"]]
  /\ UNCHANGED <<mu, call, cfg, env, storage, storage0, tokens, now, result, ctx, run, hist>>

\* aiSem <- struct{}{}: blocks while the channel is full.
SemAcquire(s) ==
  /\ tasks[s].pc = "sem"
  /\ aiSem < maxConcurrency
  /\ aiSem' = aiSem + 1
  /\ tasks' = [tasks EXCEPT ![s] = [@ EXCEPT !.pc = "processItem"]]
  /\ UNCHANGED <<mu, call, cfg, env, storage, storage0, tokens, now, result, ctx, run, hist>>

(* ------------------------------ processItem ---------------------------- *)
\* An inference call as the classifier sees it, before it has answered.
Call(op, content, rules) ==
  [ op |-> op, content |-> content, rules |-> rules, done |-> FALSE,
    err |-> NoError, level |-> "", reason |-> "", summary |-> "" ]

Invoke(t, op, content) ==
  [t EXCEPT !.calls = Append(@, Call(op, content, IF op = "Classify" THEN t.rules ELSE ""))]

\* The call in flight has answered.
Answered(t, err, level, reason, summary) ==
  [t EXCEPT !.calls[Len(t.calls)] =
     [@ EXCEPT !.done = TRUE, !.err = err, !.level = level,
               !.reason = reason, !.summary = summary]]

\* An inference call starts now: note how close it is to the one before.
Admit ==
  hist' = IF env.clock
            THEN [hist EXCEPT !.lastAdmit = now,
                              !.close = IF hist.lastAdmit = now /\ now < MaxTicks
                                          THEN @ + 1 ELSE @]
            ELSE hist

ProcessItemReturn(t, e) == [t EXCEPT !.pc = "release", !.err = e]

ExistsSkip_Never(exists) == FALSE

\* The early exit of processItem: the item is skipped when it exists.
ExistsSkip(exists) == exists

FallbackLevel_Keep(level) == level

\* The level an item gets when the first classification failed.
FallbackLevel(level) == Uninterested

WantsDeepDive_Always(src, level1) == src.Summarize

\* The condition of the deep processing branch.
WantsDeepDive(src, level1) ==
  src.Summarize /\ (level1 = HighInterest \/ level1 = Interest)

SummarizeContent_AtMost(item) ==
  IF Len(item.Content) <= MinContentLen THEN item.Description ELSE item.Content

\* The best content for summarization.
SummarizeContent(item) ==
  IF Len(item.Content) < MinContentLen THEN item.Description ELSE item.Content

\* processItem up to its first inference call: the Exists check, the plugin
\* loop, the AI settings and the call of Classify with the description.
ProcessItemBegin(s) ==
  LET t == tasks[s]
      names == Src(s).Plugins
  IN
  /\ t.pc = "processItem"
  /\ \/ \E e \in (IF ctx.derived THEN {ErrCanceled} ELSE env.storeErrs) :
          /\ tasks' = [tasks EXCEPT ![s] =
                         ProcessItemReturn([t EXCEPT !.seen = Row(t.item.ID)],
                                           "check exists: " \o e)]
          /\ UNCHANGED hist
     \/ /\ ~ctx.derived
        /\ ExistsSkip(Exists(t.item.ID))
        /\ tasks' = [tasks EXCEPT ![s] =
                       ProcessItemReturn([t EXCEPT !.seen = Row(t.item.ID)], NoError)]
        /\ UNCHANGED hist
     \/ /\ ~ctx.derived
        /\ ~ExistsSkip(Exists(t.item.ID))
        /\ \/ \E k \in Registered(names), e \in env.pluginErrs :
                /\ tasks' = [tasks EXCEPT ![s] =
                     ProcessItemReturn(
                       [t EXCEPT !.seen = Row(t.item.ID),
                                 !.plugged = Cardinality({j \in Registered(names) : j <= k}),
                                 !.item = RunPlugins(SubSeq(names, 1, k - 1), t.item)],
                       "plugin " \o names[k] \o " failed: " \o e)]
                /\ UNCHANGED hist
           \/ /\ tasks' = [tasks EXCEPT ![s] =
                   Invoke([t EXCEPT !.pc = "classify1",
                                    !.seen = Row(t.item.ID),
                                    !.plugged = Cardinality(Registered(names)),
                                    !.item = RunPlugins(names, t.item)],
                          "Classify", RunPlugins(names, t.item).Description)]
              /\ Admit
  /\ UNCHANGED <<mu, call, cfg, env, storage, storage0, tokens, now, aiSem, result, ctx, run>>

\* After the grading: the deep processing branch calls Summarize, the other
\* branch makes the first grading final.
AfterPhase1(t, src) ==
  IF WantsDeepDive(src, t.level1)
    THEN Invoke([t EXCEPT !.pc = "summarize"], "Summarize", SummarizeContent(t.item))
    ELSE [t EXCEPT !.pc = "save", !.item.InterestLevel = t.level1,
                   !.item.Reason = t.reason1]

\* The first Classify answers.
Classify1Return(s) ==
  LET t == tasks[s] IN
  /\ t.pc = "classify1"
  /\ \/ \E e \in env.aiErrs :
          LET u == [Answered(t, e, "", "", "") EXCEPT
                      !.level1 = FallbackLevel(""),
                      !.reason1 = "AI initial classification failed: " \o e]
          IN /\ tasks' = [tasks EXCEPT ![s] = AfterPhase1(u, Src(s))]
             /\ IF WantsDeepDive(Src(s), u.level1) THEN Admit ELSE UNCHANGED hist
     \/ \E level \in env.levels, reason \in env.reasons :
          LET u == [Answered(t, NoError, level, reason, "") EXCEPT
                      !.level1 = level, !.reason1 = reason]
          IN /\ tasks' = [tasks EXCEPT ![s] = AfterPhase1(u, Src(s))]
             /\ IF WantsDeepDive(Src(s), u.level1) THEN Admit ELSE UNCHANGED hist
  /\ UNCHANGED <<mu, call, cfg, env, storage, storage0, tokens, now, aiSem, result, ctx, run>>

KeepPhase1_Fallback(t) ==
  [t EXCEPT !.pc = "save", !.item.InterestLevel = Uninterested,
            !.item.Reason = "AI final classification failed"]

\* The first grading becomes the item's level and justification.
KeepPhase1(t) ==
  [t EXCEPT !.pc = "save", !.item.InterestLevel = t.level1, !.item.Reason = t.reason1]

SummarizeFailed_Regrade(t) ==
  Invoke([t EXCEPT !.pc = "classify2"], "Classify", t.item.Description)

\* Summarize failed: the first grading is final.
SummarizeFailed(t) == KeepPhase1(t)

\* Summarize answers.
SummarizeReturn(s) ==
  LET t == tasks[s] IN
  /\ t.pc = "summarize"
  /\ \/ \E e \in env.aiErrs :
          /\ tasks' = [tasks EXCEPT ![s] = SummarizeFailed(Answered(t, e, "", "", ""))]
          /\ IF SummarizeFailed(t).pc = "save" THEN UNCHANGED hist ELSE Admit
     \/ \E summary \in env.summaries :
          /\ tasks' = [tasks EXCEPT ![s] =
               Invoke([Answered(t, NoError, "", "", summary) EXCEPT
                         !.pc = "classify2", !.item.Summary = summary],
                      "Classify", summary)]
          /\ Admit
  /\ UNCHANGED <<mu, call, cfg, env, storage, storage0, tokens, now, aiSem, result, ctx, run>>

FinalGrade_First(t, level2, reason2) == KeepPhase1(t)

\* The second Classify succeeded: its grading is final.
FinalGrade(t, level2, reason2) ==
  [t EXCEPT !.pc = "save", !.item.InterestLevel = level2, !.item.Reason = reason2]

\* The second Classify answers.
Classify2Return(s) ==
  LET t == tasks[s] IN
  /\ t.pc = "classify2"
  /\ \/ \E e \in env.aiErrs :
          tasks' = [tasks EXCEPT ![s] = KeepPhase1(Answered(t, e, "", "", ""))]
     \/ \E level \in env.levels, reason \in env.reasons :
          tasks' = [tasks EXCEPT ![s] =
                      FinalGrade(Answered(t, NoError, level, reason, ""), level, reason)]
  /\ UNCHANGED <<mu, call, cfg, env, storage, storage0, tokens, now, aiSem, result, ctx, run, hist>>

Saves(id) == IF id \in DOMAIN hist.saves THEN hist.saves[id] ELSE 0

CountSave(id) ==
  hist' = [hist EXCEPT !.saves =
             [j \in DOMAIN hist.saves \cup {id} |-> IF j = id THEN Saves(id) + 1 ELSE hist.saves[j]]]

\* The last step of processItem: storage.SaveItem, whose error is returned.
PersistItem(s) ==
  LET t == tasks[s] IN
  /\ t.pc = "save"
  /\ CountSave(t.item.ID)
  /\ \/ \E e \in (IF ctx.derived THEN {ErrCanceled} ELSE env.storeErrs) :
          /\ tasks' = [tasks EXCEPT ![s] = ProcessItemReturn([t EXCEPT !.saved = t.item], e)]
          /\ UNCHANGED storage
     \/ /\ ~ctx.derived
        /\ storage' = SaveItem(storage, t.item)
        /\ tasks' = [tasks EXCEPT ![s] = ProcessItemReturn([t EXCEPT !.saved = t.item], NoError)]
  /\ UNCHANGED <<mu, call, cfg, env, storage0, tokens, now, aiSem, result, ctx, run>>

Counted_Always(err) == TRUE

\* Whether the item loop goes on to the counters and item_done, or logs the
\* error of processItem and continues with the next item.
Counted(err) == err = NoError

SlotsAfterReturn_OnSuccess(slots, err) == IF err = NoError THEN slots - 1 ELSE slots

\* <-aiSem, the statement after the call of processItem: one element leaves
\* the channel whatever processItem returned.
SlotsAfterReturn(slots, err) == slots - 1

\* The end of the loop's body: item_done is reported for an item that is
\* counted, and the loop goes to its next iteration.
NextIteration(t) ==
  [(IF Counted(t.err)
      THEN Report(t, ProgressEvent("item_done", t.i, Len(t.items),
                                   t.item.InterestLevel, ""))
      ELSE t)
     EXCEPT !.pc = "loop", !.i = t.i + 1, !.item = NoItem,
            !.outs = Append(@, t.err = NoError),
            !.dones = IF Counted(t.err) THEN @ + 1 ELSE @,
            !.lvls = Append(@, IF Counted(t.err) THEN t.item.InterestLevel ELSE "-"),
            !.level1 = "", !.reason1 = "", !.err = NoError,
            !.seen = NoItem, !.plugged = 0,
            !.calls = <<>>, !.saved = NoItem, !.sect = ""]

\* processItem has returned: the slot is released, an error is logged and
\* skipped, a success is counted and reported as item_done.
Release(s) ==
  LET t == tasks[s] IN
  /\ t.pc = "release"
  /\ aiSem' = SlotsAfterReturn(aiSem, t.err)
  /\ result' = IF ~Counted(t.err) THEN result
               ELSE [result EXCEPT
                       !.ItemsProcessed = @ + 1,
                       !.ItemsHighInterest =
                          IF t.item.InterestLevel = HighInterest THEN @ + 1 ELSE @]
  /\ tasks' = [tasks EXCEPT ![s] = NextIteration(t)]
  /\ UNCHANGED <<mu, call, cfg, env, storage, storage0, tokens, now, ctx, run, hist>>

(* ------------------------------ Run itself ----------------------------- *)
GroupDone_FirstError ==
  (\A s \in Srcs : tasks[s].pc = "done") \/ ctx.gerr # NoError

\* g.Wait() blocks until every function started with g.Go has returned.
GroupDone == \A s \in Srcs : tasks[s].pc = "done"

\* g.Wait() returns when every task has returned; its error ends Run, else
\* the JSON report is generated with the parent context.
Wait ==
  /\ run.pc = "wait"
  /\ GroupDone
  /\ \/ /\ ctx.gerr # NoError
        /\ run' = [run EXCEPT !.pc = "returned", !.err = ctx.gerr]
     \/ /\ ctx.gerr = NoError
        /\ \E e \in (IF ctx.parent THEN {ErrCanceled} ELSE env.storeErrs) :
             run' = [run EXCEPT !.pc = "returned",
                                !.err = "failed to get item from storage: " \o e,
                                !.events = <<"gen_start">>]
     \/ /\ ctx.gerr = NoError
        /\ ~ctx.parent
        /\ run' = [run EXCEPT !.pc = "returned", !.result = result,
                              !.events = <<"gen_start", "gen_done">>,
                              !.report = {row.ID : row \in AllItems(storage)}]
  /\ ctx' = [ctx EXCEPT !.derived = TRUE]
  /\ UNCHANGED <<mu, call, cfg, env, storage, storage0, tasks, tokens, now, aiSem, result, hist>>

\* The task is blocked in limiter.Wait or in the send on aiSem.
Blocked(s) ==
  \/ tasks[s].pc = "wait" /\ tokens = 0
  \/ tasks[s].pc = "sem" /\ aiSem >= maxConcurrency

\* The caller cancels the context handed to Run.
Cancel ==
  /\ run.pc = "wait"
  /\ ~ctx.parent
  /\ ctx' = [ctx EXCEPT !.parent = TRUE, !.derived = TRUE]
  /\ hist' = [hist EXCEPT !.midrun = \E s \in Srcs : tasks[s].pc # "done",
                          !.waiting = {s \in Srcs : Blocked(s)}]
  /\ UNCHANGED <<mu, call, cfg, env, storage, storage0, tasks, tokens, now, aiSem, result, run>>

\* One limiter interval passes: the bucket gains a token up to the burst.
\* When the times are not observed, intervals pass only while the bucket is
\* empty: a token that nobody waits for changes nothing a task can see.
Tick ==
  /\ run.pc = "wait"
  /\ (env.clock /\ (now < MaxTicks \/ tokens < burstLimit)) \/ tokens = 0
  /\ now' = IF env.clock THEN Min(now + 1, MaxTicks) ELSE now
  /\ tokens' = Min(tokens + 1, burstLimit)
  /\ UNCHANGED <<mu, call, cfg, env, storage, storage0, tasks, aiSem, result, ctx, run, hist>>

Next ==
  \/ \E s \in Srcs : FetchItems(s)
  \/ \E s \in Srcs : LoopHead(s)
  \/ \E s \in Srcs : LimiterWait(s)
  \/ \E s \in Srcs : SemAcquire(s)
  \/ \E s \in Srcs : ProcessItemBegin(s)
  \/ \E s \in Srcs : Classify1Return(s)
  \/ \E s \in Srcs : SummarizeReturn(s)
  \/ \E s \in Srcs : Classify2Return(s)
  \/ \E s \in Srcs : PersistItem(s)
  \/ \E s \in Srcs : Release(s)
  \/ Wait
  \/ Cancel
  \/ Tick

(* ------------- Run: the task function, mutex steps apart --------------- *)
\* The task function with every mu.Lock, every update of the result and
\* every mu.Unlock as a step of its own. A task at "lock" is about to call
\* mu.Lock, one at "held" has the mutex and has not yet updated the result,
\* one at "unlock" has updated it and is about to call mu.Unlock.

\* source_start and rss.FetchItems, up to the mu.Lock that follows.
FetchItemsLock(s) ==
  /\ tasks[s].pc = "start"
  /\ \/ \E e \in (IF ctx.derived THEN {ErrCanceled} ELSE env.fetchErrs) :
          tasks' = [tasks EXCEPT ![s] =
                      [ReportFetch(@, e) EXCEPT
                         !.pc = "lock", !.sect = "failed", !.fetched = e]]
     \/ /\ ~ctx.derived
        /\ \E feed \in env.feeds :
             /\ Len(feed) + FetchedBy(Srcs) <= MaxItems
             /\ tasks' = [tasks EXCEPT ![s] =
                         [ReportFetch(@, NoError) EXCEPT
                                   !.pc = "lock", !.sect = "processed",
                                   !.items = FeedItems(Src(s).Name, feed)]]
  /\ UNCHANGED <<mu, call, cfg, env, storage, storage0, tokens, now, aiSem, result, ctx, run, hist>>

\* processItem has returned: the slot is released; an error is logged and
\* the loop continues, a success goes on to the mu.Lock of the counters.
ReleaseLock(s) ==
  LET t == tasks[s] IN
  /\ t.pc = "release"
  /\ aiSem' = SlotsAfterReturn(aiSem, t.err)
  /\ tasks' = [tasks EXCEPT ![s] =
                 IF Counted(t.err) THEN [t EXCEPT !.pc = "lock", !.sect = "counted"]
                                   ELSE NextIteration(t)]
  /\ UNCHANGED <<mu, call, cfg, env, storage, storage0, tokens, now, result, ctx, run, hist>>

Lock_NoWait(s) ==
  /\ tasks[s].pc = "lock"
  /\ mu' = mu \cup {s}
  /\ tasks' = [tasks EXCEPT ![s] = [@ EXCEPT !.pc = "held"]]
  /\ UNCHANGED <<call, cfg, env, storage, storage0, tokens, now, aiSem, result, ctx, run, hist>>

\* mu.Lock(): blocks while another task has the mutex.
Lock(s) ==
  /\ tasks[s].pc = "lock"
  /\ mu = {}
  /\ mu' = mu \cup {s}
  /\ tasks' = [tasks EXCEPT ![s] = [@ EXCEPT !.pc = "held"]]
  /\ UNCHANGED <<call, cfg, env, storage, storage0, tokens, now, aiSem, result, ctx, run, hist>>

\* The update of the result inside the critical section.
Mutate(s) ==
  LET t == tasks[s] IN
  /\ t.pc = "held"
  /\ result' =
       CASE t.sect = "failed" -> RecordFailure(result, Src(s), t.fetched)
         [] t.sect = "processed" ->
              [result EXCEPT !.SourcesProcessed = @ + 1]
         [] OTHER ->
              [result EXCEPT
                 !.ItemsProcessed = @ + 1,
                 !.ItemsHighInterest =
                    IF t.item.InterestLevel = HighInterest THEN @ + 1 ELSE @]
  /\ tasks' = [tasks EXCEPT ![s] = [t EXCEPT !.pc = "unlock"]]
  /\ UNCHANGED <<mu, call, cfg, env, storage, storage0, tokens, now, aiSem, ctx, run, hist>>

MutexAfterUnlock_Kept(holders, s) == holders

\* mu.Unlock(): the task leaves the critical section.
MutexAfterUnlock(holders, s) == holders \ {s}

\* mu.Unlock() and what follows it up to the next blocking call: the return
\* after a failed retrieval, the rules and the loop, or item_done.
Unlock(s) ==
  LET t == tasks[s] IN
  /\ t.pc = "unlock"
  /\ mu' = MutexAfterUnlock(mu, s)
  /\ CASE t.sect = "failed" ->
            Return(s, [t EXCEPT !.sect = ""], FetchFailureReturn(t.fetched))
       [] t.sect = "processed" ->
            /\ tasks' = [tasks EXCEPT ![s] =
                           [t EXCEPT !.pc = "loop", !.i = 1, !.sect = "",
                                     !.rules = BuildRulesString(cfg.Global, Src(s))]]
            /\ UNCHANGED ctx
       [] OTHER ->
            /\ tasks' = [tasks EXCEPT ![s] = NextIteration(t)]
            /\ UNCHANGED ctx
  /\ UNCHANGED <<call, cfg, env, storage, storage0, tokens, now, aiSem, result, run, hist>>

NextMutex ==
  \/ \E s \in Srcs : FetchItemsLock(s)
  \/ \E s \in Srcs : Lock(s)
  \/ \E s \in Srcs : Mutate(s)
  \/ \E s \in Srcs : Unlock(s)
  \/ \E s \in Srcs : LoopHead(s)
  \/ \E s \in Srcs : LimiterWait(s)
  \/ \E s \in Srcs : SemAcquire(s)
  \/ \E s \in Srcs : ProcessItemBegin(s)
  \/ \E s \in Srcs : Classify1Return(s)
  \/ \E s \in Srcs : SummarizeReturn(s)
  \/ \E s \in Srcs : Classify2Return(s)
  \/ \E s \in Srcs : PersistItem(s)
  \/ \E s \in Srcs : ReleaseLock(s)
  \/ Wait
  \/ Cancel
  \/ Tick

(* ----------------------- storage used on its own ----------------------- *)
\* A store that was opened on an empty database and is used directly.
NewStore ==
  [ op     |-> "storage",
    log    |-> <<>>,    \* the items SaveItem was called with, in order
    before |-> <<>>,    \* the table before the last SaveItem call
    listed |-> {} ]     \* the IDs the last AllItems iteration yielded

\* s.SaveItem(ctx, item) returns nil.
StoreSave(item) ==
  /\ call.op = "storage"
  /\ Len(call.log) < MaxSaves
  /\ storage' = SaveItem(storage, item)
  /\ call' = [call EXCEPT !.log = Append(@, item), !.before = storage]
  /\ UNCHANGED <<mu, cfg, env, storage0, tasks, tokens, now, aiSem, result, ctx, run, hist>>

\* A full iteration over s.AllItems(ctx).
StoreAllItems ==
  /\ call.op = "storage"
  /\ call' = [call EXCEPT !.listed = {row.ID : row \in AllItems(storage)}]
  /\ UNCHANGED engine

(* ----------------------- config used on its own ------------------------ *)
\* A configuration has been loaded; its AIConfig objects are in the heap.
NewConfig(heap) ==
  [ op    |-> "config",
    heap  |-> heap,
    heap0 |-> heap,     \* the heap when the configuration was loaded
    done  |-> "",       \* the function called last
    src   |-> 0,        \* the source it was called for, if any
    ret   |-> "" ]      \* what it returned: an error text or a pointer

\* cfg.Validate()
CallValidate ==
  /\ call.op = "config"
  /\ call.done = ""
  /\ call' = [call EXCEPT !.done = "Validate", !.ret = Validate(call.heap, cfg)]
  /\ UNCHANGED engine

\* e.resolveAIConfig(src): config.ResolveAIConfig(e.cfg.Global.AI, src.AI)
CallResolveAIConfig(s) ==
  /\ call.op = "config"
  /\ call.done = ""
  /\ LET r == ResolveAIConfig(call.heap, cfg.Global.AI, cfg.Sources[s].AI)
     IN call' = [call EXCEPT !.done = "ResolveAIConfig", !.src = s,
                             !.heap = r.heap, !.ret = r.ret]
  /\ UNCHANGED engine

NextConfig ==
  \/ CallValidate
  \/ \E s \in Srcs : CallResolveAIConfig(s)

(* ------------------------------ ai package ----------------------------- *)
maxRetries == 3

\* strings.Contains
Contains(str, substr) ==
  \E k \in 1..(Len(str) - Len(substr) + 1) : SubSeq(str, k, k + Len(substr) - 1) = substr

backoffSeconds_Constant(attempt) == 1

\* time.Duration(1<<uint(attempt-1)) * time.Second, in seconds.
backoffSeconds(attempt) == 2 ^ (attempt - 1)

\* shouldRetry: the text of the error holds "429" or "status 5".
shouldRetry(err) == Contains(err, "429") \/ Contains(err, "status 5")

\* geminiProvider.buildRequest: the URL of the request.
geminiURL(baseURL, model, apiKey) ==
  baseURL \o "/models/" \o model \o ":generateContent?key=" \o apiKey

\* What one HTTP exchange can come to: the transport fails with a cause, or
\* the server answers a status and a body; the body of a 200 is a payload
\* that parses to a text, or one that parseResponse rejects with parseErr.
Transport(cause) == [kind |-> "transport", cause |-> cause]
Answer(status, body) == [kind |-> "http", status |-> status, body |-> body, parseErr |-> NoError]
Malformed(parseErr) == [kind |-> "http", status |-> 200, body |-> "", parseErr |-> parseErr]

\* doRequest: the error it returns for an exchange, NoError for a result.
doRequestErr(url, x) ==
  IF x.kind = "transport"
    THEN "do request: Post \"" \o url \o "\": " \o x.cause
  ELSE IF x.status # 200
    THEN "AI request failed with status " \o ToString(x.status) \o ": " \o x.body
  ELSE IF x.parseErr # NoError
    THEN "parse response: " \o x.parseErr
  ELSE NoError

\* doRequestWithRetry has been called with a request for url.
NewRequest(url, answers) ==
  [ op       |-> "doRequestWithRetry",
    pc       |-> "request",   \* request | backoff | returned
    url      |-> url,
    answers  |-> answers,     \* what an exchange may come to in this call
    i        |-> 0,           \* the loop variable
    attempts |-> <<>>,        \* the exchanges made so far
    waits    |-> <<>>,        \* the backoff waits completed, in seconds
    canceled |-> FALSE,       \* ctx is done
    lastErr  |-> NoError,
    ret      |-> "",
    err      |-> NoError ]

ClientReturn(c, ret, err) == [c EXCEPT !.pc = "returned", !.ret = ret, !.err = err]

\* The caller's context is cancelled while the call is running.
ClientCancel ==
  /\ call.op = "doRequestWithRetry"
  /\ call.pc # "returned"
  /\ ~call.canceled
  /\ call' = [call EXCEPT !.canceled = TRUE]
  /\ UNCHANGED engine

ClientBackoff_Sleep ==
  /\ call.op = "doRequestWithRetry"
  /\ call.pc = "backoff"
  /\ call' = [call EXCEPT !.pc = "request", !.waits = Append(@, backoffSeconds(call.i))]
  /\ UNCHANGED engine

\* backoff: the select on ctx.Done() and time.After.
ClientBackoff ==
  /\ call.op = "doRequestWithRetry"
  /\ call.pc = "backoff"
  /\ call' = IF call.canceled
               THEN ClientReturn(call, "", ErrCanceled)
               ELSE [call EXCEPT !.pc = "request",
                                 !.waits = Append(@, backoffSeconds(call.i))]
  /\ UNCHANGED engine

\* One pass of the loop's body after the backoff: doRequest and what the
\* loop does with its result.
ClientRequest ==
  /\ call.op = "doRequestWithRetry"
  /\ call.pc = "request"
  /\ \E x \in (IF call.canceled THEN {Transport(ErrCanceled)} ELSE call.answers) :
       LET err == doRequestErr(call.url, x)
           c   == [call EXCEPT !.attempts = Append(@, x)]
       IN call' =
            IF err = NoError THEN ClientReturn(c, x.body, NoError)
            ELSE IF ~shouldRetry(err) THEN ClientReturn([c EXCEPT !.lastErr = err], "", err)
            ELSE IF call.i + 1 >= maxRetries
              THEN ClientReturn([c EXCEPT !.lastErr = err], "",
                                "all retries failed: " \o err)
            ELSE [c EXCEPT !.lastErr = err, !.i = call.i + 1, !.pc = "backoff"]
  /\ UNCHANGED engine

NextClient ==
  \/ ClientCancel
  \/ ClientBackoff
  \/ ClientRequest

(* --------------------------- specifications ---------------------------- *)
SourceNames == {"a", "b"}

SourceConfig(name, url, summarize, plugins, high, interest, uninterested, exclude) ==
  [ Name |-> name, URL |-> url, Summarize |-> summarize, Plugins |-> plugins,
    HighInterest |-> high, Interest |-> interest,
    Uninterested |-> uninterested, Exclude |-> exclude ]

GlobalConfig(high, interest, uninterested, exclude, between, burst, conc) ==
  [ HighInterest |-> high, Interest |-> interest,
    Uninterested |-> uninterested, Exclude |-> exclude,
    AITimeBetweenRequests |-> between, AIBurstLimit |-> burst,
    AIMaxConcurrency |-> conc ]

Entry(link, content) == [Link |-> link, Description |-> "description", Content |-> content]

\* The gate settings tried: the defaults, and the tightest gates.
Gates == {<<0, 0>>, <<1, 1>>}

\* The run of two sources, which may share a name, both summarizing or none.
RunConfigs ==
  { [ Global  |-> GlobalConfig("a,b", "", "", "", 0, g[1], g[2]),
      Sources |-> << SourceConfig("a", "http://1", sum, <<"fetch_content">>, "c", "", "", ""),
                     SourceConfig(name2, "http://2", sum, <<>>, "", "", "", "") >> ] :
      g \in Gates, name2 \in SourceNames, sum \in BOOLEAN }

RunEnv ==
  [ clock      |-> FALSE,
    onProgress |-> FALSE,
    feeds      |-> DistinctFeedsOf({Entry(l, "") : l \in Links}, MaxItems),
    levels     |-> {HighInterest, Uninterested},
    reasons    |-> {"r"},
    summaries  |-> {"<p>summary</p>"},
    fetchErrs  |-> {"fetch failed"},
    storeErrs  |-> {"database is locked"},
    pluginErrs |-> {"plugin error"},
    aiErrs     |-> {"all retries failed"} ]

Init == InitWith(RunConfigs, {RunEnv})

Spec == Init /\ [][Next]_vars

\* One summarizing source behind the tightest gates, the times observed.
PacedConfigs ==
  { [ Global  |-> GlobalConfig("a,b", "", "", "", 0, 1, 1),
      Sources |-> << SourceConfig("a", "http://1", TRUE, <<>>, "c", "", "", "") >> ] }

InitPaced == InitWith(PacedConfigs, {[RunEnv EXCEPT !.clock = TRUE]})

SpecPaced == InitPaced /\ [][Next]_vars

\* One source and the whole variety of one item's pipeline: every level,
\* two justifications, short and long content, plugins, an unknown plugin,
\* feeds that repeat a link.
ItemConfigs ==
  { [ Global  |-> GlobalConfig("a,b", "", "", "", 0, 1, 1),
      Sources |-> << SourceConfig("a", "http://1", sum, plugins, "c", "", "", "") >> ] :
      sum \in BOOLEAN, plugins \in {<<>>, <<"missing", "fetch_content">>} }

ItemEnv ==
  [ RunEnv EXCEPT
      !.feeds   = FeedsOf({Entry(LinkOf(1), ""), Entry(LinkOf(2), LongText)}, MaxItems),
      !.levels  = InterestLevel,
      !.reasons = {"r1", "r2"} ]

InitItem == InitWith(ItemConfigs, {ItemEnv})

SpecItem == InitItem /\ [][Next]_vars

\* One source, one item, every combination of empty and non-empty rules.
RulesConfigs ==
  { [ Global  |-> GlobalConfig(g[1], g[2], g[3], g[4], 0, 1, 1),
      Sources |-> << SourceConfig("a", "http://1", TRUE, <<>>, r[1], r[2], r[3], r[4]) >> ] :
      g \in {"", "a,b"} \X {"", "d"} \X {"", "f"} \X {"", "h"},
      r \in {"", "c"} \X {"", "e"} \X {"", "g"} \X {"", "i"} }

RulesEnv ==
  [ RunEnv EXCEPT
      !.feeds   = {<<>>, <<Entry(LinkOf(1), "")>>},
      !.levels  = {HighInterest} ]

InitRules == InitWith(RulesConfigs, {RulesEnv}) /\ storage = <<>>

SpecRules == InitRules /\ [][Next]_vars

\* A text one character shorter than the shortest content that is kept.
ShortText == SubSeq(LongText, 1, MinContentLen - 1)

EntryWith(link, description, content) ==
  [Link |-> link, Description |-> description, Content |-> content]

\* One summarizing source without plugins and at most one entry: with and
\* without a description, with no content, with a content just below the
\* minimum length and with one of exactly that length.
DeepConfigs ==
  { [ Global  |-> GlobalConfig("a,b", "", "", "", 0, 1, 1),
      Sources |-> << SourceConfig("a", "http://1", TRUE, <<>>, "c", "", "", "") >> ] }

DeepEnv ==
  [ RunEnv EXCEPT
      !.feeds = {<<>>} \cup {<<EntryWith(LinkOf(1), d, c)>> :
                                d \in {"", "description"},
                                c \in {"", ShortText, LongText}} ]

InitDeep == InitWith(DeepConfigs, {DeepEnv})

SpecDeep == InitDeep /\ [][Next]_vars

(* ------------------------------- claims -------------------------------- *)
AICalls == {"classify1", "summarize", "classify2"}

\* The inference calls in flight: the tasks inside Classify or Summarize.
InFlight == Cardinality({s \in Srcs : tasks[s].pc \in AICalls})

\* C2: in every reachable state the number of Classify/Summarize calls in
\* flight is at most the admission capacity, which is
\* Global.AIMaxConcurrency when that is > 0 and 5 otherwise.
BoundedConcurrency ==
  InFlight <= (IF cfg.Global.AIMaxConcurrency > 0 THEN cfg.Global.AIMaxConcurrency ELSE 5)

\* The gate binds: capacity 1, one call in flight, another task at the gate.
BoundedConcurrencyWitness ==
  /\ cfg.Global.AIMaxConcurrency = 1
  /\ \E s, u \in Srcs : tasks[s].pc \in AICalls /\ tasks[u].pc = "sem"

\* C3: inference-call admissions are spaced by at least one limiter
\* interval, except for at most the burst allowance of them: the number of
\* admissions that follow another one within the same interval never
\* exceeds the configured burst.
PacedAdmissions ==
  hist.close <= (IF cfg.Global.AIBurstLimit > 0 THEN cfg.Global.AIBurstLimit ELSE 5)

NumFailedEntries(url) ==
  Cardinality({k \in DOMAIN result.SourcesFailed : result.SourcesFailed[k].URL = url})

\* C7: while the run is not cancelled, a source whose feed retrieval failed
\* makes no task return an error, is recorded exactly once in SourcesFailed,
\* and every other source whose retrieval succeeded passes each of its items
\* to processItem by the time its task ends, each item whose processItem
\* returned nil being in the store.
SourceIsolation ==
  \A a \in Srcs :
    (tasks[a].fetched # NoError /\ ~ctx.parent) =>
      /\ tasks[a].ret = NoError
      /\ ctx.gerr = NoError
      /\ NumFailedEntries(Src(a).URL) = 1
      /\ \A b \in Srcs \ {a} :
           (tasks[b].fetched = NoError /\ tasks[b].pc = "done") =>
             /\ Len(tasks[b].outs) = Len(tasks[b].items)
             /\ \A k \in DOMAIN tasks[b].outs :
                  tasks[b].outs[k] => tasks[b].items[k].ID \in DOMAIN storage

\* Source 1 failed, source 2 processed and stored an item, Run returned nil.
SourceIsolationWitness ==
  /\ tasks[1].fetched # NoError
  /\ ~ctx.parent
  /\ 2 \in Srcs
  /\ tasks[2].pc = "done"
  /\ tasks[2].outs = <<TRUE>>
  /\ tasks[2].items[1].ID \notin DOMAIN storage0
  /\ tasks[2].items[1].ID \in DOMAIN storage
  /\ run.pc = "returned"
  /\ run.err = NoError

\* C8: within a run SaveItem is invoked at most once per item identity, and
\* never for an identity that was in the store when the run started.
AtMostOncePersistence ==
  \A id \in DOMAIN hist.saves :
    hist.saves[id] <= 1 /\ id \notin DOMAIN storage0

\* processItem has returned for the item of task s.
Returned(s) == tasks[s].pc = "release"

\* The errors an Exists check can make processItem return.
CheckExistsErrors == {"check exists: " \o e : e \in env.storeErrs \cup {ErrCanceled}}

\* What a processItem call leaves untouched when the row was there.
SkippedClean(t) ==
  /\ t.pc = "release"
  /\ t.calls = <<>>
  /\ t.plugged = 0
  /\ t.saved = NoItem
  /\ Row(t.item.ID) = t.seen

\* C1 as stated: for an item whose identity is in the store, processItem
\* returns success right after the Exists check, with no inference call, no
\* plugin execution and no SaveItem call, and the stored row is unchanged.
IdempotentSkipSucceeds ==
  \A s \in Srcs :
    tasks[s].seen # NoItem => SkippedClean(tasks[s]) /\ tasks[s].err = NoError

\* C1 amended: for an item whose identity is in the store, processItem
\* returns right after the Exists check, with success when the check
\* succeeded and with the wrapped error of the check otherwise, having made
\* no inference call, no plugin execution and no SaveItem call, and the
\* stored row is unchanged.
IdempotentSkip ==
  \A s \in Srcs :
    tasks[s].seen # NoItem =>
      /\ SkippedClean(tasks[s])
      /\ tasks[s].err \in {NoError} \cup CheckExistsErrors

\* The second item of a feed repeats the first, which this run has stored:
\* it is skipped with success.
IdempotentSkipWitness ==
  \E s \in Srcs :
    /\ Returned(s)
    /\ tasks[s].i = 2
    /\ tasks[s].seen # NoItem
    /\ tasks[s].seen.Reason # "old"
    /\ tasks[s].err = NoError

AllSucceeded(calls) == \A k \in DOMAIN calls : calls[k].done /\ calls[k].err = NoError

\* The row SaveItem was given is the stored one when processItem returned nil.
Persisted(t) ==
  /\ t.saved # NoItem
  /\ t.saved = t.item
  /\ t.err = NoError => Row(t.item.ID) = t.saved

\* C4: for an item not in the store, from a summarizing source, whose first
\* Classify answers high_interest or interest and whose inference calls all
\* succeed, processItem makes exactly the calls Classify, Summarize,
\* Classify, the last one with the generated summary as content, and saves
\* the level and justification of the second classification together with
\* the generated summary.
TwoPhasePath ==
  \A s \in Srcs :
    LET t == tasks[s]
        c == t.calls
    IN (/\ Returned(s)
        /\ t.seen = NoItem
        /\ Src(s).Summarize
        /\ c # <<>>
        /\ AllSucceeded(c)
        /\ c[1].level \in {HighInterest, Interest}) =>
         /\ Len(c) = 3
         /\ <<c[1].op, c[2].op, c[3].op>> = <<"Classify", "Summarize", "Classify">>
         /\ c[3].content = c[2].summary
         /\ Persisted(t)
         /\ t.saved.InterestLevel = c[3].level
         /\ t.saved.Reason = c[3].reason
         /\ t.saved.Summary = c[2].summary

\* Graded high_interest first and exclude on the summary: stored as exclude.
TwoPhasePathWitness ==
  \E s \in Srcs :
    LET t == tasks[s] IN
    /\ Returned(s)
    /\ t.err = NoError
    /\ Len(t.calls) = 3
    /\ t.calls[1].level = HighInterest
    /\ t.calls[1].reason = "r1"
    /\ t.calls[3].level = Exclude
    /\ t.calls[3].reason = "r2"
    /\ storage[t.item.ID].InterestLevel = Exclude
    /\ storage[t.item.ID].Reason = "r2"

\* C5: for an item not in the store whose first Classify answers
\* uninterested or exclude, or whose source does not summarize, processItem
\* makes exactly one inference call and saves the level and justification
\* of that classification.
Phase1OnlyPath ==
  \A s \in Srcs :
    LET t == tasks[s]
        c == t.calls
    IN (/\ Returned(s)
        /\ t.seen = NoItem
        /\ c # <<>>
        /\ c[1].err = NoError
        /\ c[1].level \in {Uninterested, Exclude} \/ ~Src(s).Summarize) =>
         /\ Len(c) = 1
         /\ c[1].op = "Classify"
         /\ Persisted(t)
         /\ t.saved.InterestLevel = c[1].level
         /\ t.saved.Reason = c[1].reason

\* A summarizing source, the item graded exclude at once and stored so.
Phase1OnlyPathWitness ==
  \E s \in Srcs :
    LET t == tasks[s] IN
    /\ Returned(s)
    /\ Src(s).Summarize
    /\ t.err = NoError
    /\ Len(t.calls) = 1
    /\ t.calls[1].level = Exclude
    /\ storage[t.item.ID].InterestLevel = Exclude

MergedTerms(global, specific) ==
  CASE global # "" /\ specific # "" -> global \o "," \o specific
    [] global # "" /\ specific = "" -> global
    [] global = "" /\ specific # "" -> specific
    [] OTHER -> ""

\* C9: the terms of each level are the global string, a comma and the
\* source's string when both are non-empty, the non-empty one when only one
\* is, and empty when both are; the rules string is "High: .., Interest: ..,
\* Uninterested: .., Exclude: .." over the four merged values, and it is the
\* rules argument of every Classify call of the source.
RuleMerging ==
  \A s \in Srcs :
    LET g == cfg.Global
        src == Src(s)
        rules == "High: " \o MergedTerms(g.HighInterest, src.HighInterest)
                   \o ", Interest: " \o MergedTerms(g.Interest, src.Interest)
                   \o ", Uninterested: " \o MergedTerms(g.Uninterested, src.Uninterested)
                   \o ", Exclude: " \o MergedTerms(g.Exclude, src.Exclude)
    IN \A k \in DOMAIN tasks[s].calls :
         tasks[s].calls[k].op = "Classify" => tasks[s].calls[k].rules = rules

\* Global "a,b" and the source's "c": the second Classify is given a,b,c.
RuleMergingWitness ==
  \E s \in Srcs :
    /\ cfg.Global.HighInterest = "a,b"
    /\ Src(s).HighInterest = "c"
    /\ cfg.Global.Exclude = ""
    /\ Src(s).Exclude = "i"
    /\ Len(tasks[s].calls) = 3
    /\ tasks[s].calls[3].rules = "High: a,b,c, Interest: , Uninterested: , Exclude: i"

\* C11: when an inference call made for an item has failed, processItem
\* does not call SaveItem for the item and the item's identity is not in the
\* store afterwards, so that the next run does not find it.
FailedInferenceNotStored ==
  \A s \in Srcs :
    LET t == tasks[s] IN
    (Returned(s) /\ \E k \in DOMAIN t.calls : t.calls[k].err # NoError) =>
      t.saved = NoItem /\ ~Exists(t.item.ID)

\* C14: a task that is blocked waiting for the rate token or for an
\* admission slot when the context is cancelled takes no slot and does not
\* enter processItem for that item: it stays where it is until it returns
\* the cancellation error.
GateWaitsObserveCancel ==
  \A s \in hist.waiting :
    /\ tasks[s].pc \in {"wait", "sem", "done"}
    /\ tasks[s].pc = "done" => tasks[s].ret = ErrCanceled

\* C15: when the context was cancelled before every source task had
\* returned, Run returns the cancellation error and no result, and no
\* gen_start or gen_done event is emitted.
CancelIsRunFatal ==
  (hist.midrun /\ run.pc = "returned") =>
    /\ run.err \in {ErrCanceled, "failed to get item from storage: " \o ErrCanceled}
    /\ run.result = NoResult
    /\ run.events = <<>>

\* The number of items of task t that processItem handled without error.
RECURSIVE Succeeded(_)
Succeeded(outs) ==
  IF outs = <<>> THEN 0
  ELSE (IF Head(outs) THEN 1 ELSE 0) + Succeeded(Tail(outs))

\* The number of item_done events of level High among the first n sources.
RECURSIVE Highs(_)
Highs(lvls) ==
  IF lvls = <<>> THEN 0
  ELSE (IF Head(lvls) = HighInterest THEN 1 ELSE 0) + Highs(Tail(lvls))

RECURSIVE SumOver(_, _)
SumOver(S, field) ==
  IF S = {} THEN 0
  ELSE LET s == CHOOSE x \in S : TRUE
       IN (IF field = "outs" THEN Succeeded(tasks[s].outs) ELSE Highs(tasks[s].lvls))
            + SumOver(S \ {s}, field)

\* C16: while the context is not cancelled, an error of processItem makes
\* no task return an error and cancels nobody, the task goes on with the
\* next item until its feed is done, Run returns no error of an item, and
\* the failed items appear neither in ItemsProcessed nor in
\* ItemsHighInterest nor among the item_done events.
ItemErrorsContained ==
  ~ctx.parent =>
    /\ ctx.gerr = NoError
    /\ run.pc = "wait" => ~ctx.derived
    /\ run.pc = "returned" =>
         run.err \in {NoError} \cup
                     {"failed to get item from storage: " \o e : e \in env.storeErrs}
    /\ result.ItemsProcessed = SumOver(Srcs, "outs")
    /\ result.ItemsHighInterest = SumOver(Srcs, "lvls")
    /\ \A s \in Srcs :
         LET t == tasks[s] IN
         /\ t.ret = NoError
         /\ t.dones = Succeeded(t.outs)
         /\ \A k \in DOMAIN t.outs : ~t.outs[k] => t.lvls[k] = "-"
         /\ t.pc \in {"loop", "wait", "sem", "processItem"} => Len(t.outs) = t.i - 1
         /\ (t.pc = "done" /\ t.fetched = NoError) => Len(t.outs) = Len(t.items)

\* The first item of a source failed in processItem, the second one was
\* processed and stored, and Run returned the result without an error.
ItemErrorsContainedWitness ==
  /\ ~ctx.parent
  /\ run.pc = "returned"
  /\ run.err = NoError
  /\ tasks[1].outs = <<FALSE, TRUE>>
  /\ tasks[1].lvls = <<"-", HighInterest>>
  /\ tasks[1].items[2].ID \in DOMAIN storage
  /\ tasks[1].items[1].ID \notin DOMAIN storage
  /\ run.result.ItemsProcessed = 1
  /\ run.result.ItemsHighInterest = 1

\* No source: the configuration of a state in which no run is under way.
NoSources ==
  [ Global |-> GlobalConfig("", "", "", "", 0, 0, 0), Sources |-> <<>> ]

\* The requests and the exchanges tried for the inference client: a URL
\* without and one with the digits 429 in its key, the statuses of
\* permanent and of transient failures, bodies without and with the digits.
ClientURLs ==
  { geminiURL("https://g", "m", "key"), geminiURL("https://g", "m", "k429") }

ClientAnswers ==
  { Transport("connection refused") }
    \cup { Answer(st, b) : st \in {400, 404, 429, 500, 503},
                           b \in {"bad request", "limit is 1429 tokens"} }
    \cup { Answer(200, "text") }
    \cup { Malformed(e) : e \in {"unexpected end of JSON input", "empty response from Gemini"} }

InitClient ==
  /\ EngineInit({NoSources}, {RunEnv})
  /\ call \in {NewRequest(url, ClientAnswers) : url \in ClientURLs}

SpecClient == InitClient /\ [][NextClient]_vars

\* An exchange that answers a permanent failure: a 4xx other than 429, or a
\* payload that cannot be parsed.
Permanent(x) ==
  /\ x.kind = "http"
  /\ \/ x.status \in 400..499 /\ x.status # 429
     \/ x.status = 200 /\ x.parseErr # NoError

\* An exchange that answers HTTP 429 or 5xx.
Transient(x) == x.kind = "http" /\ (x.status = 429 \/ x.status \in 500..599)

\* C12: when the first exchange answers a 4xx other than 429, whatever its
\* body and the URL hold, or a malformed payload, doRequestWithRetry makes
\* no other attempt and no backoff wait, and returns that error.
PermanentNotRetried ==
  (call.op = "doRequestWithRetry" /\ call.attempts # <<>> /\ Permanent(call.attempts[1])) =>
    /\ call.pc = "returned"
    /\ Len(call.attempts) = 1
    /\ call.waits = <<>>
    /\ call.err = doRequestErr(call.url, call.attempts[1])

AllTransient(attempts) ==
  attempts # <<>> /\ \A k \in DOMAIN attempts : Transient(attempts[k])

\* An attempt that succeeded is the last one and its result is returned.
SuccessReturnsAtOnce ==
  \A k \in DOMAIN call.attempts :
    doRequestErr(call.url, call.attempts[k]) = NoError =>
      /\ k = Len(call.attempts)
      /\ call.pc = "returned"
      /\ call.err = NoError
      /\ call.ret = call.attempts[k].body

\* Three attempts, a wait of 1s and one of 2s, then "all retries failed".
CeilingReached ==
  /\ Len(call.attempts) = maxRetries
  /\ call.waits = <<1, 2>>
  /\ call.err = "all retries failed: "
                  \o doRequestErr(call.url, call.attempts[Len(call.attempts)])

\* C13 as stated: when every attempt answers 429 or 5xx, the call makes
\* exactly 3 attempts, waits 1s before the second and 2s before the third,
\* and returns 'all retries failed'; an attempt that succeeds ends the call
\* with its result.
TransientRetriedToCeiling ==
  call.op = "doRequestWithRetry" =>
    /\ (call.pc = "returned" /\ AllTransient(call.attempts)) => CeilingReached
    /\ SuccessReturnsAtOnce

\* C13 amended: the same, unless the context is cancelled during a backoff
\* wait: then the call returns the context's error after the attempts and
\* the waits made so far, fewer than 3 attempts.
TransientRetried ==
  call.op = "doRequestWithRetry" =>
    /\ (call.pc = "returned" /\ AllTransient(call.attempts)) =>
         IF call.canceled
           THEN /\ call.err = ErrCanceled
                /\ Len(call.attempts) < maxRetries
                /\ call.waits = SubSeq(<<1, 2>>, 1, Len(call.attempts) - 1)
           ELSE CeilingReached
    /\ Len(call.attempts) <= maxRetries
    /\ call.waits = SubSeq(<<1, 2>>, 1, Len(call.waits))
    /\ SuccessReturnsAtOnce

\* 429, then 500, then 503: the ceiling is reached.
TransientRetriedWitness ==
  /\ call.op = "doRequestWithRetry"
  /\ call.pc = "returned"
  /\ ~call.canceled
  /\ Len(call.attempts) = 3
  /\ AllTransient(call.attempts)
  /\ <<call.attempts[1].status, call.attempts[2].status, call.attempts[3].status>>
       = <<429, 500, 503>>
  /\ call.waits = <<1, 2>>
  /\ call.err = "all retries failed: AI request failed with status 503: bad request"

\* The items saved to a store used on its own: two identities, each with
\* two levels and with and without a summary.
StoreItems ==
  { [OldRow(id) EXCEPT !.InterestLevel = level, !.Summary = summary] :
      id \in {generateID("a", "x"), generateID("b", "x")},
      level \in {Interest, Exclude},
      summary \in {"", "s"} }

NextStore ==
  \/ \E item \in StoreItems : StoreSave(item)
  \/ StoreAllItems

InitStore ==
  /\ EngineInit({NoSources}, {RunEnv})
  /\ storage = <<>>
  /\ call = NewStore

SpecStore == InitStore /\ [][NextStore]_vars

\* The last item of the log with this ID.
LastSaved(log, id) ==
  log[CHOOSE k \in DOMAIN log :
        log[k].ID = id /\ \A j \in DOMAIN log : log[j].ID = id => j <= k]

\* C17: after any sequence of SaveItem calls the store holds one record for
\* each ID that was saved and no other, the record of an ID has the field
\* values of the last call for that ID, and a call that repeats the call
\* before it leaves the store as that call left it.
SaveItemIsUpsert ==
  call.op = "storage" =>
    /\ DOMAIN storage = {call.log[k].ID : k \in DOMAIN call.log}
    /\ \A id \in DOMAIN storage : storage[id] = LastSaved(call.log, id)
    /\ \A k \in DOMAIN call.log :
         (k = Len(call.log) /\ k > 1 /\ call.log[k] = call.log[k - 1]) =>
            storage = call.before

\* An identity saved as interest and then as exclude with a summary, next
\* to another identity: two records, the first one with the later values.
SaveItemIsUpsertWitness ==
  /\ call.op = "storage"
  /\ Len(call.log) = 3
  /\ call.log[1].ID = call.log[3].ID
  /\ call.log[1].ID # call.log[2].ID
  /\ call.log[1].InterestLevel = Interest
  /\ call.log[3].InterestLevel = Exclude
  /\ call.log[3].Summary = "s"
  /\ Cardinality(DOMAIN storage) = 2
  /\ storage[call.log[1].ID] = call.log[3]

\* C18: AllItems yields no stored item whose level is exclude and every
\* stored item of another level, so the report of a run holds exactly
\* those; an item stored with level exclude exists for processItem, which
\* skips it without an inference call, a plugin or a SaveItem call.
ExcludedStoredNotReported ==
  /\ \A id \in DOMAIN storage :
       storage[id] \in AllItems(storage) <=> storage[id].InterestLevel # Exclude
  /\ (run.pc = "returned" /\ run.err = NoError) =>
       run.report = {id \in DOMAIN storage : storage[id].InterestLevel # Exclude}
  /\ \A s \in Srcs :
       (tasks[s].pc \in {"classify1", "summarize", "classify2", "save", "release"}
          /\ tasks[s].seen # NoItem /\ tasks[s].seen.InterestLevel = Exclude) =>
         SkippedClean(tasks[s])

\* The first entry of a feed was stored as exclude, the second entry, which
\* repeats it, was skipped without a second SaveItem call, and the report
\* of the run leaves the item out.
ExcludedStoredNotReportedWitness ==
  /\ run.pc = "returned"
  /\ run.err = NoError
  /\ tasks[1].outs = <<TRUE, TRUE>>
  /\ tasks[1].lvls = <<Exclude, "">>
  /\ tasks[1].items[1].ID = tasks[1].items[2].ID
  /\ storage[tasks[1].items[1].ID].InterestLevel = Exclude
  /\ tasks[1].items[1].ID \notin run.report
  /\ hist.saves[tasks[1].items[1].ID] = 1

\* The AIConfig values tried, and no AIConfig at all (nil pointer).
AIConfigs ==
  { [Provider |-> "", Model |-> ""], [Provider |-> "", Model |-> "m2"],
    [Provider |-> "QWEN", Model |-> "m2"], [Provider |-> "openai", Model |-> ""] }

GlobalAIConfigs ==
  { [Provider |-> "", Model |-> ""], [Provider |-> "", Model |-> "m1"],
    [Provider |-> "Gemini", Model |-> "m1"], [Provider |-> "azure", Model |-> ""] }

\* Names and URLs of a source: present, missing, and a URL without scheme.
NamesAndURLs ==
  { <<"n", "http://u">>, <<"", "http://u">>, <<"n", "">>, <<"", "">>, <<"n", ":u">> }

\* Stands for the absence of an AIConfig object (a nil pointer).
NoAIConfig == [Provider |-> Nil, Model |-> Nil]

\* The loaded configurations: what each pointer of cfg points to, if not nil.
ConfigShapes ==
  UNION { [ {"g"} \cup {ToString(k) : k \in 1..n} ->
              {NoAIConfig} \cup GlobalAIConfigs \cup AIConfigs ]
            : n \in 0..MaxConfigSources }

ShapeOK(shape) ==
  /\ shape["g"] \in {NoAIConfig} \cup GlobalAIConfigs
  /\ \A a \in DOMAIN shape \ {"g"} : shape[a] \in {NoAIConfig} \cup AIConfigs

PointerOf(shape, a) == IF shape[a] = NoAIConfig THEN Nil ELSE a

HeapOf(shape) == [a \in {b \in DOMAIN shape : shape[b] # NoAIConfig} |-> shape[a]]

ConfigOf(shape, nu) ==
  [ Global  |-> [AI |-> PointerOf(shape, "g")] @@ NoSources.Global,
    Sources |-> [k \in DOMAIN nu |->
                   [AI |-> PointerOf(shape, ToString(k))]
                     @@ SourceConfig(nu[k][1], nu[k][2], FALSE, <<>>, "", "", "", "")] ]

InitConfig ==
  \E shape \in {sh \in ConfigShapes : ShapeOK(sh)} :
    \E nu \in [1..(Cardinality(DOMAIN shape) - 1) -> NamesAndURLs] :
      /\ EngineInit({ConfigOf(shape, nu)}, {RunEnv})
      /\ storage = <<>>
      /\ call = NewConfig(HeapOf(shape))

SpecConfig == InitConfig /\ [][NextConfig]_vars

\* C19: ResolveAIConfig returns the global pointer when the source's is nil,
\* the source's pointer when the global one is nil, and otherwise an object
\* whose Provider, and whose Model, is the source's value when that is
\* non-empty and the global's otherwise; the global object is as it was.
ResolveOverrides ==
  (call.op = "config" /\ call.done = "ResolveAIConfig") =>
    LET global == cfg.Global.AI
        source == cfg.Sources[call.src].AI
        old    == call.heap0
        new    == call.heap
    IN /\ source = Nil => call.ret = global
       /\ (source # Nil /\ global = Nil) => call.ret = source
       /\ (source # Nil /\ global # Nil) =>
            /\ call.ret \in DOMAIN new
            /\ new[call.ret].Provider =
                 (IF old[source].Provider # "" THEN old[source].Provider
                                               ELSE old[global].Provider)
            /\ new[call.ret].Model =
                 (IF old[source].Model # "" THEN old[source].Model
                                            ELSE old[global].Model)
       /\ global # Nil => new[global] = old[global]

\* The source sets only a model: the provider is the global one, the model
\* the source's, and the global object still has its own model.
ResolveOverridesWitness ==
  /\ call.op = "config"
  /\ call.done = "ResolveAIConfig"
  /\ cfg.Global.AI # Nil
  /\ cfg.Sources[call.src].AI # Nil
  /\ call.heap0[cfg.Global.AI] = [Provider |-> "Gemini", Model |-> "m1"]
  /\ call.heap0[cfg.Sources[call.src].AI] = [Provider |-> "", Model |-> "m2"]
  /\ call.heap[call.ret] = [Provider |-> "Gemini", Model |-> "m2"]
  /\ call.heap[cfg.Global.AI].Model = "m1"

\* gemini or qwen in the letter cases that are tried.
IsGeminiOrQwen(provider) ==
  provider \in {"gemini", "Gemini", "GEMINI", "qwen", "Qwen", "QWEN"}

BadProvider(heap, ai) ==
  ai # Nil /\ heap[ai].Provider # "" /\ ~IsGeminiOrQwen(heap[ai].Provider)

\* The source is invalid as C20 lists it.
ListedInvalid(heap, src) == src.Name = "" \/ src.URL = "" \/ BadProvider(heap, src.AI)

\* The lowest position of a source that satisfies Bad, 0 if there is none.
Lowest(sources, Bad(_)) ==
  IF \E k \in DOMAIN sources : Bad(sources[k])
    THEN CHOOSE k \in DOMAIN sources :
           Bad(sources[k]) /\ \A j \in DOMAIN sources : Bad(sources[j]) => k <= j
    ELSE 0

\* What C20 says of the error for sources judged by Bad: there is an error
\* exactly when there is no source, the global provider is bad or a source
\* is Bad; an error about a source names the lowest index of a Bad source,
\* and the name of that source is checked before its URL.
ValidateAgrees(Bad(_, _)) ==
  LET heap == call.heap
      IsBad(src) == Bad(heap, src)
      k == Lowest(cfg.Sources, IsBad)
      at == "source[" \o ToString(k - 1) \o "]: "
  IN /\ call.ret # NoError <=>
          \/ Len(cfg.Sources) = 0
          \/ BadProvider(heap, cfg.Global.AI)
          \/ k # 0
     /\ (Len(cfg.Sources) > 0 /\ ~BadProvider(heap, cfg.Global.AI) /\ k # 0) =>
          /\ SubSeq(call.ret, 1, Len(at)) = at
          /\ cfg.Sources[k].Name = "" => call.ret = at \o "name is required"
          /\ (cfg.Sources[k].Name # "" /\ cfg.Sources[k].URL = "") =>
               call.ret = at \o "URL is required"

\* C20 as stated: Validate returns an error exactly when there is no
\* source, the global provider is non-empty and not gemini/qwen in any
\* letter case, or a source has an empty name, an empty URL or such a
\* provider; a source error names the lowest index of an invalid source and
\* the name is checked before the URL.
ValidateAsListed ==
  (call.op = "config" /\ call.done = "Validate") => ValidateAgrees(ListedInvalid)

\* The source is invalid as listed, or url.Parse rejects its URL.
ListedOrUnparsable(heap, src) ==
  ListedInvalid(heap, src) \/ urlParseErr(src.URL) # NoError

\* C20 amended: the same, where a source is also invalid when url.Parse
\* rejects its URL.
ValidateChecks ==
  (call.op = "config" /\ call.done = "Validate") => ValidateAgrees(ListedOrUnparsable)

\* The first source is valid with the provider QWEN, the second one has
\* neither a name nor a URL: the error is about index 1 and about its name.
ValidateChecksWitness ==
  /\ call.op = "config"
  /\ call.done = "Validate"
  /\ Len(cfg.Sources) = 2
  /\ cfg.Sources[1].AI # Nil
  /\ call.heap[cfg.Sources[1].AI].Provider = "QWEN"
  /\ cfg.Sources[2].Name = ""
  /\ cfg.Sources[2].URL = ""
  /\ call.ret = "source[1]: name is required"

Summarized(t) == \E k \in DOMAIN t.calls : t.calls[k].op = "Summarize"

\* C21: when the full content of an item is shorter than 100 characters
\* and its description is insufficient as well (it is empty), processItem
\* makes no Summarize call and no second Classify call, and the item gets
\* the level of the first grading.
NoSummaryExit ==
  \A s \in Srcs :
    LET t == tasks[s] IN
    (t.pc \in {"summarize", "classify2", "save", "release"}
       /\ Len(t.item.Content) < 100 /\ t.item.Description = "") =>
      /\ ~Summarized(t)
      /\ Len(t.calls) <= 1
      /\ t.pc \in {"save", "release"} => t.item.InterestLevel = t.level1

\* C28: the text passed to Summarize is the item's content when that has
\* at least 100 characters and the item's description when it has fewer,
\* and the item that is saved has the Content and the Description the
\* plugins left it with.
DeepDiveContent ==
  \A s \in Srcs :
    LET t == tasks[s]
        fed == RunPlugins(Src(s).Plugins, t.items[t.i])
    IN /\ \A k \in DOMAIN t.calls :
            t.calls[k].op = "Summarize" =>
              t.calls[k].content = (IF Len(fed.Content) >= 100 THEN fed.Content
                                                              ELSE fed.Description)
       /\ t.saved # NoItem =>
            /\ t.saved.Content = fed.Content
            /\ t.saved.Description = fed.Description

\* A content of exactly 100 characters, different from the description,
\* was passed to Summarize as it is, and the item was saved with it.
DeepDiveContentWitness ==
  \E s \in Srcs :
    LET t == tasks[s] IN
    /\ Len(t.items) = 1
    /\ t.saved # NoItem
    /\ Len(t.saved.Content) = 100
    /\ t.saved.Description # t.saved.Content
    /\ Summarized(t)
    /\ t.calls[2].content = t.saved.Content

\* The second Classify call of this processItem call has failed.
Classify2Failed(t) ==
  /\ Len(t.calls) = 3
  /\ t.calls[3].done
  /\ t.calls[3].err # NoError

PluginFailed(t) ==
  /\ t.pc = "release"
  /\ Len(t.err) >= 7
  /\ SubSeq(t.err, 1, 7) = "plugin "

InPipeline ==
  {"wait", "sem", "processItem", "classify1", "summarize", "classify2", "save", "release"}

HoldsSlot == {"processItem", "classify1", "summarize", "classify2", "save", "release"}

\* C24: a source task that has started its k-th item works on the k-th
\* item of its feed, processItem has returned for each of the k - 1 items
\* before it, and the admission slots taken are exactly those of the tasks
\* between the acquisition and the release for their one current item.
FeedOrder ==
  /\ \A s \in Srcs :
       LET t == tasks[s] IN
       t.pc \in InPipeline =>
         /\ t.i \in DOMAIN t.items
         /\ t.item.ID = t.items[t.i].ID
         /\ t.item.Link = LinkOf(t.i)
         /\ Len(t.outs) = t.i - 1
  /\ aiSem = Cardinality({s \in Srcs : tasks[s].pc \in HoldsSlot})

\* A task is in processItem for the second item of its feed after the
\* first one was processed.
FeedOrderWitness ==
  \E s \in Srcs :
    /\ tasks[s].pc = "processItem"
    /\ tasks[s].i = 2
    /\ tasks[s].item.Link = LinkOf(2)
    /\ tasks[s].outs = <<TRUE>>
    /\ aiSem = 1

\* Every inference call of this processItem call has answered.
CallsDone(t) == \A k \in DOMAIN t.calls : t.calls[k].done

\* The step is a SaveItem call of task s at the end of its processItem call.
SaveStep(s) ==
  /\ tasks[s].pc = "save"
  /\ tasks'[s].pc = "release"
  /\ tasks[s].saved = NoItem
  /\ tasks'[s].saved = tasks[s].item
  /\ tasks[s].calls # <<>>
  /\ CallsDone(tasks[s])

\* C25: an ID is in the store only if it was there when the run started or
\* SaveItem was called for it; the store changes only in the SaveItem call
\* that ends a processItem call, after every inference call of that call
\* has answered, and the row of the ID is the item of that call whenever
\* SaveItem returns nil; a
\* processItem call calls SaveItem at most once, and one that has an
\* inference call pending or returned before its first inference call has
\* not called it.
PersistenceIsTerminal ==
  /\ [](\A id \in DOMAIN storage : id \in DOMAIN storage0 \/ Saves(id) >= 1)
  /\ [](\A s \in Srcs :
          (tasks[s].pc \in AICalls \/ (tasks[s].pc = "release" /\ tasks[s].calls = <<>>))
            => tasks[s].saved = NoItem)
  /\ [][ /\ storage' # storage =>
              \E s \in Srcs :
                /\ SaveStep(s)
                /\ DOMAIN storage' = DOMAIN storage \cup {tasks[s].item.ID}
                /\ storage'[tasks[s].item.ID] = tasks[s].item
                /\ \A id \in DOMAIN storage \ {tasks[s].item.ID} : storage'[id] = storage[id]
         /\ \A s \in Srcs :
              (SaveStep(s) /\ tasks'[s].err = NoError) =>
                /\ tasks[s].item.ID \in DOMAIN storage'
                /\ storage'[tasks[s].item.ID] = tasks[s].item
         /\ \A s \in Srcs :
              tasks'[s].saved # tasks[s].saved =>
                \/ SaveStep(s)
                \/ tasks[s].pc = "release" /\ tasks'[s].saved = NoItem
         /\ hist'.saves # hist.saves =>
              \E s \in Srcs :
                /\ SaveStep(s)
                /\ Saves(tasks[s].item.ID)' = Saves(tasks[s].item.ID) + 1
                /\ \A u \in Srcs \ {s} : tasks'[u] = tasks[u]
       ]_vars

\* Two tasks of sources with the same name have processed the same entry:
\* both have called SaveItem for the ID, and the row is the second one's.
PersistenceIsTerminalWitness ==
  \E s, u \in Srcs :
    /\ s # u
    /\ tasks[s].pc = "release"
    /\ tasks[u].pc = "release"
    /\ tasks[s].err = NoError
    /\ tasks[u].err = NoError
    /\ tasks[s].saved # NoItem
    /\ tasks[u].saved # NoItem
    /\ tasks[s].saved.ID = tasks[u].saved.ID
    /\ tasks[s].saved # tasks[u].saved
    /\ Saves(tasks[s].saved.ID) = 2
    /\ Row(tasks[s].saved.ID) = tasks[u].saved

\* C26: for every item for which processItem returned nil, the Level of
\* its item_done event is one of the four interest levels and is the level
\* of the row the store holds for the item's ID.
ItemDoneCarriesLevel ==
  \A s \in Srcs :
    \A k \in DOMAIN tasks[s].lvls :
      tasks[s].lvls[k] # "-" =>
        /\ tasks[s].lvls[k] \in InterestLevel
        /\ Row(tasks[s].items[k].ID).InterestLevel = tasks[s].lvls[k]

(* ------------------------- rss used on its own ------------------------- *)
\* generateID is called for feed entries; made holds the calls so far.
NewIDs == [op |-> "generateID", made |-> <<>>]

\* generateID(source, link)
CallGenerateID(source, link) ==
  /\ call.op = "generateID"
  /\ Len(call.made) < MaxIDs
  /\ call' = [call EXCEPT !.made =
                Append(@, [source |-> source, link |-> link,
                           hashed |-> generateID(source, link)])]
  /\ UNCHANGED engine

\* Source names and links without and with the separator.
IDSources == {"a", "a|b", "b", "b|c"}
IDLinks == {"c", "b|c", "x", "c|x"}

NextID == \E source \in IDSources, link \in IDLinks : CallGenerateID(source, link)

InitID ==
  /\ EngineInit({NoSources}, {RunEnv})
  /\ storage = <<>>
  /\ call = NewIDs

SpecID == InitID /\ [][NextID]_vars

\* C27: generateID hashes the same bytes for the same (source, link) pair
\* and different bytes for two different pairs, also when a source name or
\* a link contains the separator '|'.
IdentityInjective ==
  call.op = "generateID" =>
    \A j, k \in DOMAIN call.made :
      (call.made[j].source = call.made[k].source /\ call.made[j].link = call.made[k].link)
        <=> call.made[j].hashed = call.made[k].hashed

\* Two sources with different names: neither summarizes behind the default
\* gates, both summarize behind the tightest gates.
MutexConfigs ==
  { [ Global  |-> GlobalConfig("a,b", "", "", "", 0, g[1], g[2]),
      Sources |-> << SourceConfig("a", "http://1", g[1] = 1, <<>>, "c", "", "", ""),
                     SourceConfig("b", "http://2", g[1] = 1, <<>>, "", "", "", "") >> ] :
      g \in Gates }

InitMutex == InitWith(MutexConfigs, {RunEnv})

SpecMutex == InitMutex /\ [][NextMutex]_vars

\* C29: at most one source task is inside a critical section of the
\* RunResult mutex; a task inside one is between its mu.Lock and its
\* mu.Unlock, so not in a feed retrieval, a gate wait, a plugin, an
\* inference call, a store call or a progress callback; and every change of
\* SourcesProcessed, SourcesFailed, ItemsProcessed or ItemsHighInterest is
\* made by a task that holds the mutex before and after the change.
LockDiscipline ==
  /\ [](Cardinality(mu) <= 1)
  /\ [](\A s \in Srcs : s \in mu <=> tasks[s].pc \in {"held", "unlock"})
  /\ [][ result' # result =>
           \E s \in mu : /\ s \in mu'
                         /\ tasks[s].pc = "held"
                         /\ tasks'[s].pc = "unlock"
                         /\ \A u \in Srcs \ {s} : tasks'[u] = tasks[u] ]_vars

\* One task has the mutex to count an item while the other one is at its
\* mu.Lock after a failed feed retrieval.
LockDisciplineWitness ==
  \E s, u \in Srcs :
    /\ mu = {s}
    /\ tasks[s].pc = "held"
    /\ tasks[s].sect = "counted"
    /\ tasks[u].pc = "lock"
    /\ tasks[u].sect = "failed"

\* C30: when Run has returned every source task has returned; from then
\* on no task takes a step, the store, the counters and the slots stay as
\* they are, and a result that Run returned is the RunResult as the last
\* task left it.
StructuredCompletion ==
  /\ [](run.pc = "returned" => \A s \in Srcs : tasks[s].pc = "done")
  /\ [](run.pc = "returned" => aiSem = 0 /\ mu = {})
  /\ []((run.pc = "returned" /\ run.err = NoError) => run.result = result)
  /\ [][run.pc = "returned" => UNCHANGED <<tasks, storage, result, aiSem, hist>>]_vars

\* Run has returned the cancellation error of one task after the other
\* task, which had an item in the pipeline, has returned as well.
StructuredCompletionWitness ==
  /\ run.pc = "returned"
  /\ run.err = ErrCanceled
  /\ \E s, u \in Srcs :
       /\ tasks[s].pc = "done"
       /\ tasks[s].ret = ErrCanceled
       /\ tasks[u].pc = "done"
       /\ tasks[u].ret = NoError
       /\ tasks[u].outs # <<>>

\* Every exchange of the call failed below HTTP: no status was received.
AllTransport(attempts) ==
  attempts # <<>> /\ \A k \in DOMAIN attempts : attempts[k].kind = "transport"

\* C32: when every exchange of a call fails at the transport level
\* (connection refused) and the context is not cancelled, the call is
\* retried with backoff up to the attempt ceiling: it returns after 3
\* attempts and the waits of 1s and 2s.
TransportRetried ==
  (call.op = "doRequestWithRetry" /\ call.pc = "returned"
     /\ ~call.canceled /\ AllTransport(call.attempts)) =>
    /\ Len(call.attempts) = maxRetries
    /\ call.waits = <<1, 2>>

\* C33: a backoff wait during which the context is cancelled ends the call
\* with the context's error and without another exchange; the exchanges
\* and the waits of a call never change once it has returned, and a call
\* that returned the context's error made fewer than 3 attempts, none of
\* them after the wait that was cut short.
BackoffObservesCancel ==
  /\ [][ (call.op = "doRequestWithRetry" /\ call.pc = "backoff" /\ call.canceled) =>
           /\ call'.pc = "returned"
           /\ call'.err = ErrCanceled
           /\ call'.ret = ""
           /\ call'.attempts = call.attempts
           /\ call'.waits = call.waits ]_vars
  /\ [][ (call.op = "doRequestWithRetry" /\ call.pc = "returned") => call' = call ]_vars
  /\ []((call.op = "doRequestWithRetry" /\ call.pc = "returned" /\ call.err = ErrCanceled) =>
          /\ call.canceled
          /\ Len(call.attempts) < maxRetries
          /\ Len(call.waits) = Len(call.attempts) - 1)

\* The second wait was cut short by the cancellation: two attempts (429,
\* then 500), one completed wait of 1s, and the context's error.
BackoffObservesCancelWitness ==
  /\ call.op = "doRequestWithRetry"
  /\ call.pc = "returned"
  /\ call.canceled
  /\ call.err = ErrCanceled
  /\ Len(call.attempts) = 2
  /\ AllTransient(call.attempts)
  /\ call.waits = <<1>>

(* ------------------- the run command and its providers ----------------- *)
\* ProviderType
Gemini == "gemini"
Qwen == "qwen"

\* AddProvider: the keys of c.providers after the call.
AddProvider(providers, t) ==
  IF t \in {Gemini, Qwen} THEN providers \cup {t} ELSE providers

\* resolveProvider: the provider type looked up is cfg.Provider as it is
\* written, gemini when there is none; the error when it is not registered.
resolveProvider(providers, heap, aiCfg) ==
  LET providerType == IF aiCfg # Nil /\ heap[aiCfg].Provider # ""
                        THEN heap[aiCfg].Provider ELSE Gemini
      model == IF aiCfg # Nil THEN heap[aiCfg].Model ELSE ""
  IN IF providerType \in providers
       THEN [p |-> providerType, model |-> model, err |-> NoError]
       ELSE [p |-> Nil, model |-> "",
             err |-> "provider " \o providerType \o " not configured"]

\* The run command has been started with these API keys in its environment.
NewCommand(heap, keys) ==
  [ op        |-> "run",
    pc        |-> "load",   \* load | failed | ready | called
    heap      |-> heap,
    keys      |-> keys,
    providers |-> {},       \* the keys of the client's providers map
    err       |-> NoError,  \* the error of the command or of the call
    src       |-> 0,        \* the source an inference call was made for
    p         |-> Nil ]     \* the provider that call resolved to

\* runCmd.RunE up to NewEngine: LoadConfig, then one AddProvider per API key
\* that is set, and an error when none is.
CommandLoad ==
  /\ call.op = "run"
  /\ call.pc = "load"
  /\ LET invalid == Validate(call.heap, cfg)
         withGemini == IF "GEMINI_API_KEY" \in call.keys
                         THEN AddProvider({}, Gemini) ELSE {}
         withBoth == IF "QWEN_API_KEY" \in call.keys
                       THEN AddProvider(withGemini, Qwen) ELSE withGemini
     IN call' =
          IF invalid # NoError
            THEN [call EXCEPT !.pc = "failed",
                              !.err = "load config: invalid config: " \o invalid]
          ELSE IF withBoth = {}
            THEN [call EXCEPT !.pc = "failed",
                              !.err = "GEMINI_API_KEY or QWEN_API_KEY must be set"]
          ELSE [call EXCEPT !.pc = "ready", !.providers = withBoth]
  /\ UNCHANGED engine

\* An inference call of processItem for source s as far as callAI's
\* resolveProvider: the AI settings are those of resolveAIConfig.
CommandCallAI(s) ==
  /\ call.op = "run"
  /\ call.pc = "ready"
  /\ LET r   == ResolveAIConfig(call.heap, cfg.Global.AI, cfg.Sources[s].AI)
         res == resolveProvider(call.providers, r.heap, r.ret)
     IN call' = [call EXCEPT !.pc = "called", !.heap = r.heap, !.src = s,
                             !.p = res.p, !.err = res.err]
  /\ UNCHANGED engine

NextCommand ==
  \/ CommandLoad
  \/ \E s \in Srcs : CommandCallAI(s)

\* Configurations of one source, and every set of API keys.
InitCommand ==
  \E shape \in {sh \in ConfigShapes : ShapeOK(sh) /\ DOMAIN sh = {"g", "1"}} :
    \E nu \in [{1} -> NamesAndURLs] :
      \E keys \in SUBSET {"GEMINI_API_KEY", "QWEN_API_KEY"} :
        /\ EngineInit({ConfigOf(shape, nu)}, {RunEnv})
        /\ storage = <<>>
        /\ call = NewCommand(HeapOf(shape), keys)

SpecCommand == InitCommand /\ [][NextCommand]_vars

\* The provider string the configuration names for source s: the source's
\* when it names one, else the global one, "" when neither does.
NamedProvider(heap, s) ==
  LET g == cfg.Global.AI
      a == cfg.Sources[s].AI
  IN IF a # Nil /\ heap[a].Provider # "" THEN heap[a].Provider
     ELSE IF g # Nil THEN heap[g].Provider
     ELSE ""

\* The provider type a provider string stands for, whatever its letter case.
TypeOfProvider(provider) ==
  IF provider \in {"gemini", "Gemini", "GEMINI"} THEN "gemini" ELSE "qwen"

\* C34: when the configuration was accepted and names gemini or qwen in
\* some letter case for the source, and that provider is registered, the
\* inference call resolves to it and does not fail with 'provider ... not
\* configured'.
AcceptedProviderUsable ==
  (call.op = "run" /\ call.pc = "called"
     /\ IsGeminiOrQwen(NamedProvider(call.heap, call.src))
     /\ TypeOfProvider(NamedProvider(call.heap, call.src)) \in call.providers) =>
    /\ call.err = NoError
    /\ call.p = TypeOfProvider(NamedProvider(call.heap, call.src))

\* C35: when exactly one provider is registered and the configuration
\* names no provider for the source, the inference call resolves to the
\* registered provider.
EitherKeyIsEnough ==
  (call.op = "run" /\ call.pc = "called"
     /\ Cardinality(call.providers) = 1
     /\ NamedProvider(call.heap, call.src) = "") =>
    /\ call.err = NoError
    /\ call.p \in call.providers

\* C36: the number of occupied admission slots is the number of source
\* tasks between the acquisition of a slot and the statement after the
\* return of processItem, and never more than the capacity; the step after
\* every return of processItem frees one slot, whatever was returned; and
\* when Run has returned no slot is occupied.
SlotsNeverLeak ==
  /\ [](aiSem = Cardinality({s \in Srcs : tasks[s].pc \in HoldsSlot}))
  /\ [](aiSem \in 0..maxConcurrency)
  /\ [](run.pc = "returned" => aiSem = 0)
  /\ [][ \A s \in Srcs :
           (tasks[s].pc = "release" /\ tasks'[s].pc # "release") => aiSem' = aiSem - 1 ]_vars

\* Behind a gate of capacity 1 a task whose first processItem call returned
\* an error is in processItem for its second item.
SlotsNeverLeakWitness ==
  /\ cfg.Global.AIMaxConcurrency = 1
  /\ \E s \in Srcs :
       /\ tasks[s].outs = <<FALSE>>
       /\ tasks[s].pc = "processItem"
       /\ tasks[s].i = 2
       /\ aiSem = 1

\* The sources whose feed retrieval has returned items, and those whose
\* retrieval has returned an error.
Retrieved == {s \in Srcs : tasks[s].pc # "start" /\ tasks[s].fetched = NoError}
FailedToRetrieve == {s \in Srcs : tasks[s].fetched # NoError}

\* C38: SourcesProcessed counts exactly the sources whose retrieval
\* returned items and SourcesFailed holds one entry, with its name, URL and
\* error, for exactly each source whose retrieval returned an error, so no
\* source is counted twice or in both; when Run returns a result without an
\* error the two add up to the number of configured sources.
SourceAccounting ==
  /\ result.SourcesProcessed = Cardinality(Retrieved)
  /\ Len(result.SourcesFailed) = Cardinality(FailedToRetrieve)
  /\ \A k \in DOMAIN result.SourcesFailed :
       \E s \in FailedToRetrieve :
         result.SourcesFailed[k] =
           [Name |-> Src(s).Name, URL |-> Src(s).URL, Error |-> tasks[s].fetched]
  /\ \A s \in FailedToRetrieve :
       \E k \in DOMAIN result.SourcesFailed : result.SourcesFailed[k].URL = Src(s).URL
  /\ (run.pc = "returned" /\ run.err = NoError) =>
       /\ run.result = result
       /\ run.result.SourcesProcessed + Len(run.result.SourcesFailed) = Cardinality(Srcs)

\* Run has returned a result: one source was processed, the other failed.
SourceAccountingWitness ==
  /\ run.pc = "returned"
  /\ run.err = NoError
  /\ run.result.SourcesProcessed = 1
  /\ Len(run.result.SourcesFailed) = 1
  /\ run.result.SourcesFailed[1].Error = "fetch failed"
  /\ run.result.ItemsProcessed >= 1

\* The identities this run has persisted with the level high_interest: those
\* of the items for which processItem returned nil after SaveItem had stored
\* them with that level (a skipped item keeps the empty level).
PersistedHigh ==
  {tasks[s].items[k].ID : <<s, k>> \in
     {<<s, k>> \in Srcs \X (1..MaxItems) :
        k \in DOMAIN tasks[s].lvls /\ tasks[s].lvls[k] = HighInterest}}

\* C39: when Run returns a result, ItemsProcessed is the number of items
\* for which processItem returned no error, skipped ones included,
\* ItemsHighInterest is at most ItemsProcessed, and ItemsHighInterest is the
\* number of identities this run persisted with the level high_interest.
ItemAccounting ==
  (run.pc = "returned" /\ run.err = NoError) =>
    /\ run.result.ItemsProcessed = SumOver(Srcs, "outs")
    /\ run.result.ItemsHighInterest <= run.result.ItemsProcessed
    /\ run.result.ItemsHighInterest = Cardinality(PersistedHigh)

(* --------------------- Run under a fair scheduler ---------------------- *)
\* Two sources behind the tightest gates (one slot, a bucket of one token)
\* and behind the default gates; the first source summarizes.
LiveConfigs ==
  { [ Global  |-> GlobalConfig("a,b", "", "", "", 0, g[1], g[2]),
      Sources |-> << SourceConfig("a", "http://1", TRUE, <<>>, "c", "", "", ""),
                     SourceConfig("b", "http://2", FALSE, <<>>, "", "", "", "") >> ] :
      g \in Gates }

\* Inference answers; retrieval and the store may fail.
LiveEnv == [RunEnv EXCEPT !.levels = {HighInterest}, !.aiErrs = {}]

InitLive == InitWith(LiveConfigs, {LiveEnv})

\* The next step of the goroutine of source s, whatever it is.
TaskStep(s) ==
  \/ FetchItemsLock(s) \/ Lock(s) \/ Mutate(s) \/ Unlock(s)
  \/ LoopHead(s) \/ LimiterWait(s) \/ SemAcquire(s)
  \/ ProcessItemBegin(s) \/ Classify1Return(s) \/ SummarizeReturn(s)
  \/ Classify2Return(s) \/ PersistItem(s) \/ ReleaseLock(s)

\* Every goroutine that can take a step eventually takes one (the
\* collaborator it called returns, the Go scheduler runs it), the goroutine
\* of Run does, and time passes for the limiter. Nothing obliges the caller
\* to cancel.
Fairness ==
  /\ \A s \in UNION {DOMAIN c.Sources : c \in LiveConfigs} :
       WF_vars(s \in Srcs /\ TaskStep(s))
  /\ WF_vars(Wait)
  /\ WF_vars(Tick)

SpecLive == InitLive /\ [][NextMutex]_vars /\ Fairness

\* C37: Run eventually returns; a task that waits for the rate token or for
\* an admission slot is outside the critical sections of the mutex, every
\* slot in use belongs to a task between its acquire and its release (so to
\* none that waits for the rate token), and a task inside a critical
\* section is at none of the gates.
RunTerminates ==
  /\ <>(run.pc = "returned")
  /\ [](\A s \in Srcs : tasks[s].pc \in {"wait", "sem"} => s \notin mu)
  /\ [](aiSem = Cardinality({s \in Srcs : tasks[s].pc \in HoldsSlot}))
  /\ [](\A s \in mu : tasks[s].pc \in {"held", "unlock"})

\* Behind one slot and a bucket of one token both sources had an item, one
\* task stood at a gate while the other was being processed, and Run has
\* returned the result for both.
RunTerminatesWitness ==
  /\ maxConcurrency = 1
  /\ burstLimit = 1
  /\ run.pc = "returned"
  /\ run.err = NoError
  /\ \A s \in Srcs : Len(tasks[s].items) = 1 /\ tasks[s].outs = <<TRUE>>
  /\ run.result.ItemsProcessed = 2

(* ------------------- Run with a progress callback ---------------------- *)
\* The run of two sources with OnProgress installed.
ProgressEnv == [LiveEnv EXCEPT !.onProgress = TRUE]

InitProgress == InitWith(LiveConfigs, {ProgressEnv})

SpecProgress == InitProgress /\ [][Next]_vars

ItemEvents == {"item_start", "item_done"}

\* C31: while the run is not cancelled, the events of each source begin
\* with its only source_start and, once its task has returned, end with its
\* only source_done; an item_done directly follows the item_start with the
\* same Count; a source whose retrieval failed has no item event and a
\* source_done with a message; gen_start is reported when the last event of
\* every source is its source_done, and gen_done after gen_start when the
\* report was generated and Run returns the result.
ProgressProtocol ==
  ~ctx.parent =>
    /\ \A s \in Srcs :
         LET t == tasks[s]
             ev == tasks[s].evs
         IN /\ t.pc # "start" => (ev # <<>> /\ ev[1].Type = "source_start")
            /\ \A k \in DOMAIN ev :
                 /\ ev[k].Type = "source_start" => k = 1
                 /\ ev[k].Type = "source_done" => (k = Len(ev) /\ t.pc = "done")
                 /\ ev[k].Type = "item_done" =>
                      /\ k > 1
                      /\ ev[k - 1].Type = "item_start"
                      /\ ev[k - 1].Count = ev[k].Count
                      /\ ev[k].Count \in DOMAIN t.items
                 /\ ev[k].Type = "item_start" =>
                      ev[k].Count = 1 + Cardinality({j \in 1..(k - 1) : ev[j].Type = "item_start"})
            /\ t.pc = "done" => ev[Len(ev)].Type = "source_done"
            /\ t.fetched # NoError =>
                 /\ \A k \in DOMAIN ev : ev[k].Type \notin ItemEvents
                 /\ ev[Len(ev)].Type = "source_done"
                 /\ ev[Len(ev)].Message # ""
    /\ run.events # <<>> =>
         /\ run.events[1] = "gen_start"
         /\ \A s \in Srcs : tasks[s].evs[Len(tasks[s].evs)].Type = "source_done"
    /\ (\E k \in DOMAIN run.events : run.events[k] = "gen_done") =>
         /\ run.events = <<"gen_start", "gen_done">>
         /\ run.err = NoError
         /\ run.result = result

\* A run that was not cancelled has reported gen_done: one source reported
\* source_start, item_start and item_done of its item and source_done, the
\* other one source_start and source_done with the message of its failure.
ProgressProtocolWitness ==
  /\ ~ctx.parent
  /\ run.events = <<"gen_start", "gen_done">>
  /\ \E s \in Srcs :
       /\ Len(tasks[s].evs) = 4
       /\ tasks[s].evs[2] = ProgressEvent("item_start", 1, 1, "", "")
       /\ tasks[s].evs[3] = ProgressEvent("item_done", 1, 1, HighInterest, "")
       /\ tasks[s].evs[4] = ProgressEvent("source_done", 1, 1, "", "")
  /\ \E s \in Srcs :
       tasks[s].evs = << ProgressEvent("source_start", 0, 0, "", ""),
                         ProgressEvent("source_done", 0, 0, "",
                                       "Error fetching items: fetch failed") >>

====
